---- MODULE Spec2Model ----
(***************************************************************************)
(* Sacred Timeline for Obsidian: the SacredTimeline adapter                *)
(* (src/src/git-wrapper.ts) over a git repository, and the plugin          *)
(* (src/src/main.ts) that calls it from commands and timers.               *)
(*                                                                         *)
(* The repository is the engine's state.  Every adapter method is a        *)
(* sequence of awaited engine calls inside one try/catch; an engine call   *)
(* either succeeds, or throws because git cannot do it in that state, or   *)
(* throws for a reason outside the model (parameter f names the call that  *)
(* throws, e the error text).                                              *)
(***************************************************************************)
EXTENDS Integers, Sequences, FiniteSets, TLC

VARIABLES repo, last, tasks, timers, settings, notices, statusBar

vars == <<repo, last, tasks, timers, settings, notices, statusBar>>

plugin == <<tasks, timers, settings, notices, statusBar>>

(***************************************************************************)
(* Bounds of the model.                                                    *)
(***************************************************************************)
MaxCommits == 2
MaxAhead == 1
MaxTasks == 2
MaxLog == 4
MaxShown == 2

(***************************************************************************)
(* Names.  A name is a sequence of characters, so that experiment()'s      *)
(* sanitising of a name is computed and not assumed.                       *)
(***************************************************************************)
MAIN == <<"m", "a", "i", "n">>
MASTER == <<"m", "a", "s", "t", "e", "r">>
DETACHED == <<"H", "E", "A", "D">>
ORIGIN == "origin"

RawNames == { <<"X", "1">> }

\* Names a user may type, as UTF-16 code units: upper case, a space, a
\* hyphen, a slash, a letter outside a-z (U+00C9, E acute), a letter whose
\* lower case is two code units (U+0130, I with dot above), a surrogate pair,
\* a leading hyphen and the empty name.
InputNames ==
  RawNames \cup
  { <<"A", " ", "b">>, <<"a", "-", "2">>, <<"0", "/", "B">>, <<"U+00C9", "!">>,
    <<"U+0130", "x">>, <<"U+D83E", "U+DDEA", "1">>, <<"-", "x">>, <<>> }

LowerOf ==
  [c \in {"X", "A", "B", "U+00C9", "U+0130"} |->
     CASE c = "X" -> <<"x">> [] c = "A" -> <<"a">> [] c = "B" -> <<"b">>
       [] c = "U+00C9" -> <<"U+00E9">>
       [] c = "U+0130" -> <<"i", "U+0307">>]

SafeChars == {"a", "b", "i", "x", "0", "1", "2", "-"}

RECURSIVE toLowerCase(_)
toLowerCase(name) ==
  IF name = <<>> THEN <<>>
  ELSE (IF Head(name) \in DOMAIN LowerOf THEN LowerOf[Head(name)] ELSE <<Head(name)>>)
       \o toLowerCase(Tail(name))

\* A sanitising that forgets to lower the case.
safeNameKeepsCase(name) ==
  [i \in 1..Len(name) |-> IF name[i] \in SafeChars THEN name[i] ELSE "-"]

safeName(name) ==
  LET lower == toLowerCase(name) IN
  [i \in 1..Len(lower) |-> IF lower[i] \in SafeChars THEN lower[i] ELSE "-"]

ExperimentNames == { safeName(n) : n \in RawNames }
SafeNames == { safeName(n) : n \in InputNames }
BranchNames == {MAIN, MASTER} \cup ExperimentNames \cup SafeNames
Refs == BranchNames \cup {DETACHED}
CommitIds == 1..MaxCommits

(***************************************************************************)
(* The working tree.  Each path has one porcelain XY code; simple-git's    *)
(* StatusResult sorts the paths into its arrays by that code.              *)
(***************************************************************************)
Paths == {"a.md"}
WidePaths == {"a.md", "b.md", "c.md"}

Clean == "  "
Codes == {Clean, "??", " M", "M ", "MM", "A ", "AM", " D", "D "}
WorktreeCodes == {"??", " M", "MM", " D"}

IndexChar(code) ==
  CASE code \in {"M ", "MM"} -> "M"
    [] code \in {"A ", "AM"} -> "A"
    [] code = "D " -> "D"
    [] code = "??" -> "?"
    [] OTHER -> " "

StatusResult(r) ==
  LET P == DOMAIN r.codes IN
  [ files     |-> {p \in P : r.codes[p] # Clean},
    staged    |-> {p \in P : IndexChar(r.codes[p]) \in {"M", "A", "D"}},
    modified  |-> {p \in P : r.codes[p] \in {" M", "M ", "MM", "AM"}},
    not_added |-> {p \in P : r.codes[p] = "??"},
    created   |-> {p \in P : r.codes[p] \in {"A ", "AM"}},
    deleted   |-> {p \in P : r.codes[p] \in {" D", "D "}},
    conflicted |-> {p \in P : r.codes[p] = "UU"},
    current   |-> r.current,
    ahead     |-> r.ahead,
    behind    |-> r.behind ]

StagedCode(code) ==
  CASE code \in {" M", "M ", "MM", "UU"} -> "M "
    [] code \in {"??", "A ", "AM"} -> "A "
    [] code \in {" D", "D "} -> "D "
    [] OTHER -> Clean

\* A commit records the index: what was staged is clean afterwards, and a
\* change made after staging is still a change of the working tree.
CommittedCode(code) ==
  CASE code \in {"M ", "A ", "D "} -> Clean
    [] code \in {"MM", "AM"} -> " M"
    [] OTHER -> code

(***************************************************************************)
(* The repository.                                                         *)
(***************************************************************************)
NoHist == [b \in Refs |-> {}]

NoEntry == [hash |-> <<>>, weekday |-> "", date |-> 0, files |-> <<>>, root |-> FALSE]

NoRepo(P) ==
  [ isRepo |-> FALSE, branches |-> {}, current |-> MAIN,
    codes |-> [p \in P |-> Clean], remotes |-> {},
    ahead |-> 0, behind |-> 0, unfetched |-> 0, hist |-> NoHist,
    anc |-> [c \in CommitIds |-> {}],
    entries |-> [c \in CommitIds |-> NoEntry] ]

Unborn(P, branch) == [NoRepo(P) EXCEPT !.isRepo = TRUE, !.current = branch]

Born(P, bs, branch) == [Unborn(P, branch) EXCEPT !.branches = bs]

AllCommits(r) == UNION { r.hist[b] : b \in Refs }

IsUnborn(r) == r.branches = {} /\ r.current # DETACHED

(***************************************************************************)
(* Engine calls.  Each returns [ok, err, r, val]: whether it returned, the *)
(* error text if it threw, the repository after it, and its value.         *)
(* inj says that this call throws for a reason outside the model.          *)
(***************************************************************************)
ErrorTexts == {"fatal: unable to access", "CONFLICT (content): Merge conflict",
               "CONFLICTS: a.md:content",
               "! [rejected] main -> main", "remote origin already exists"}
NotARepo == "fatal: not a git repository"

\* What a merge that stops on a conflict can throw: git's own output, or the
\* summary the wrapper library makes of it ("CONFLICTS: " file ":" reason).
MergeConflictTexts == {"CONFLICT (content): Merge conflict", "CONFLICTS: a.md:content"}

\* The repository a merge stopped by a conflict leaves: the path unmerged
\* in the working tree, no history moved.
Conflicted(r) == [r EXCEPT !.codes["a.md"] = "UU"]

Ok(r, val) == [ok |-> TRUE, err |-> "", r |-> r, val |-> val]
Threw(r, err) == [ok |-> FALSE, err |-> err, r |-> r, val |-> {}]

GitStatus(r, inj, e) ==
  IF ~r.isRepo THEN Threw(r, NotARepo)
  ELSE IF inj THEN Threw(r, e)
  ELSE Ok(r, StatusResult(r))

GitAdd(r, inj, e) ==
  IF ~r.isRepo THEN Threw(r, NotARepo)
  ELSE IF inj THEN Threw(r, e)
  ELSE Ok([r EXCEPT !.codes = [p \in DOMAIN r.codes |-> StagedCode(r.codes[p])]], {})

Digits == <<"1", "2", "3", "4", "5", "6", "7", "8", "9">>

Hash(id) == <<"c", Digits[id]>>

Weekdays == <<"Monday", "Tuesday">>

CommitEntry(r, id) ==
  [ hash |-> Hash(id),
    weekday |-> Weekdays[(id % 2) + 1],
    date |-> id,
    files |-> << <<"a.md">> >>,
    root |-> (r.hist[r.current] = {}) ]

NextCommit(r) == Cardinality(AllCommits(r)) + 1

GitCommit(r, inj, e) ==
  IF ~r.isRepo THEN Threw(r, NotARepo)
  ELSE IF inj THEN Threw(r, e)
  ELSE LET id == NextCommit(r) IN
       IF id \notin CommitIds THEN Ok([r EXCEPT !.hist[r.current] = @ \cup {id}], id)
       ELSE
       Ok([r EXCEPT !.codes = [p \in DOMAIN r.codes |->
                                 CommittedCode(r.codes[p])],
                    !.hist[r.current] = r.hist[r.current] \cup {id},
                    !.anc[id] = r.hist[r.current] \cup {id},
                    !.entries[id] = CommitEntry(r, id),
                    !.branches = IF r.current = DETACHED THEN r.branches
                                 ELSE r.branches \cup {r.current},
                    !.ahead = IF r.remotes = {} THEN 0 ELSE r.ahead + 1],
          id)

GitGetRemotes(r, inj, e) ==
  IF ~r.isRepo THEN Threw(r, NotARepo)
  ELSE IF inj THEN Threw(r, e)
  ELSE Ok(r, r.remotes)

GitFetch(r, inj, e) ==
  IF ~r.isRepo THEN Threw(r, NotARepo)
  ELSE IF inj THEN Threw(r, e)
  ELSE Ok([r EXCEPT !.behind = r.behind + r.unfetched, !.unfetched = 0], {})

GitPull(r, inj, e) ==
  IF ~r.isRepo THEN Threw(r, NotARepo)
  ELSE IF inj THEN Threw(r, e)
  ELSE Ok([r EXCEPT !.behind = 0, !.unfetched = 0], {})

Diverged(r) == r.behind + r.unfetched > 0

GitPush(r, inj, e) ==
  IF ~r.isRepo THEN Threw(r, NotARepo)
  ELSE IF Diverged(r) THEN Threw(r, "! [rejected] main -> main")
  ELSE IF inj THEN Threw(r, e)
  ELSE Ok([r EXCEPT !.ahead = 0], {})


ResolveCommit(r, ref) == {id \in AllCommits(r) : Hash(id) = ref}

InvalidBranchName(name) == name = <<>> \/ name[1] = "-"

GitCheckoutLocalBranch(r, name, inj, e) ==
  IF ~r.isRepo THEN Threw(r, NotARepo)
  ELSE IF InvalidBranchName(name) THEN Threw(r, "fatal: not a valid branch name")
  ELSE IF name \in r.branches THEN Threw(r, "fatal: a branch named that already exists")
  ELSE IF inj THEN Threw(r, e)
  ELSE Ok([r EXCEPT !.branches = IF IsUnborn(r) THEN {} ELSE r.branches \cup {name},
                    !.hist[name] = r.hist[r.current],
                    !.current = name],
          {})

GitCheckout(r, ref, inj, e) ==
  IF ~r.isRepo THEN Threw(r, NotARepo)
  ELSE IF ref \notin r.branches /\ ResolveCommit(r, ref) = {}
       THEN Threw(r, "error: pathspec did not match")
  ELSE IF inj THEN Threw(r, e)
  ELSE IF ref \in r.branches
       THEN Ok([r EXCEPT !.current = ref, !.hist[DETACHED] = {}], {})
  ELSE LET id == CHOOSE c \in ResolveCommit(r, ref) : TRUE IN
       Ok([r EXCEPT !.current = DETACHED, !.hist[DETACHED] = r.anc[id]], {})

GitMerge(r, branch, inj, e) ==
  IF ~r.isRepo THEN Threw(r, NotARepo)
  ELSE IF branch = DETACHED THEN (IF inj THEN Threw(r, e) ELSE Ok(r, {}))
  ELSE IF branch \notin r.branches THEN Threw(r, "merge: not something we can merge")
  ELSE IF inj /\ e \in MergeConflictTexts THEN Threw(Conflicted(r), e)
  ELSE IF inj THEN Threw(r, e)
  ELSE Ok([r EXCEPT !.hist[r.current] = r.hist[r.current] \cup r.hist[branch]], {})

GitDeleteLocalBranch(r, branch, force, inj, e) ==
  IF ~r.isRepo THEN Threw(r, NotARepo)
  ELSE IF branch \notin r.branches THEN Threw(r, "error: branch not found")
  ELSE IF branch = r.current THEN Threw(r, "error: cannot delete the checked out branch")
  ELSE IF ~force /\ ~(r.hist[branch] \subseteq r.hist[r.current])
       THEN Threw(r, "error: the branch is not fully merged")
  ELSE IF inj THEN Threw(r, e)
  ELSE Ok([r EXCEPT !.branches = r.branches \ {branch}, !.hist[branch] = {}], {})

GitBranchLocal(r, inj, e) ==
  IF ~r.isRepo THEN Threw(r, NotARepo)
  ELSE IF inj THEN Threw(r, e)
  ELSE Ok(r, r.branches)

GitInit(r, initBranch, inj, e) ==
  IF inj THEN Threw(r, e)
  ELSE IF r.isRepo THEN Ok(r, {})
  ELSE Ok(Unborn(DOMAIN r.codes, initBranch), {})

GitAddRemote(r, name, inj, e) ==
  IF ~r.isRepo THEN Threw(r, NotARepo)
  ELSE IF name \in r.remotes THEN Threw(r, "remote origin already exists")
  ELSE IF inj THEN Threw(r, e)
  ELSE Ok([r EXCEPT !.remotes = r.remotes \cup {name}], {})

(***************************************************************************)
(* The engine's log: the commits of HEAD, newest first.  A commit keeps    *)
(* its weekday, its calendar date, the paths its diff against its parent   *)
(* names (a path is its segments), and whether it has no parent.           *)
(***************************************************************************)
RECURSIVE Descending(_)
Descending(S) ==
  IF S = {} THEN <<>>
  ELSE LET m == CHOOSE x \in S : \A y \in S : y <= x IN
       <<m>> \o Descending(S \ {m})

Age(r, id) == Cardinality(AllCommits(r)) - id

LogOf(r, ids) ==
  LET d == Descending(ids) IN [i \in 1..Len(d) |-> r.entries[d[i]]]

GitLogSince(r, days, inj, e) ==
  IF ~r.isRepo THEN Threw(r, NotARepo)
  ELSE IF IsUnborn(r)
       THEN Threw(r, "fatal: your current branch does not have any commits yet")
  ELSE IF inj THEN Threw(r, e)
  ELSE Ok(r, LogOf(r, {id \in r.hist[r.current] : Age(r, id) < days}))

Take(s, n) == SubSeq(s, 1, IF Len(s) < n THEN Len(s) ELSE n)

GitLogMaxCount(r, limit, inj, e) ==
  IF ~r.isRepo THEN Threw(r, NotARepo)
  ELSE IF IsUnborn(r)
       THEN Threw(r, "fatal: your current branch does not have any commits yet")
  ELSE IF inj THEN Threw(r, e)
  ELSE Ok(r, Take(LogOf(r, r.hist[r.current]), limit))

(***************************************************************************)
(* How a method ends: it returns a value to its caller or lets an error    *)
(* propagate.  An adapter method yields [r, calls, out]: the repository    *)
(* after it, the engine calls it issued in order, and how it ended.        *)
(***************************************************************************)
Return(value) == [kind |-> "return", value |-> value]
Raise(err) == [kind |-> "throw", value |-> err]

Done(r, calls, out) == [r |-> r, calls |-> calls, caught |-> "", out |-> out]

\* The method's catch block took the error err and ended the method with out.
Caught(r, calls, err, out) == [r |-> r, calls |-> calls, caught |-> err, out |-> out]

Mentions ==
  [ t \in ErrorTexts \cup {NotARepo} |->
      CASE t = "CONFLICT (content): Merge conflict" -> {"conflict"}
        [] t = "! [rejected] main -> main" -> {"rejected"}
        [] t = "remote origin already exists" -> {"already exists"}
        [] OTHER -> {} ]

includes(text, part) == text \in DOMAIN Mentions /\ part \in Mentions[text]

(***************************************************************************)
(* capture                                                                 *)
(***************************************************************************)
\* A capture without its guard: it goes on to add and commit whatever the status.
NothingToCaptureSkipped(status) == FALSE

NothingToCapture(status) == Cardinality(status.files) = 0

CaptureCatch(error) ==
  Return([success |-> FALSE, message |-> <<"Capture failed: ", error>>])

capture(r, message, f, e) ==
  LET s1 == GitStatus(r, f = 1, e) IN
  IF ~s1.ok THEN Caught(s1.r, <<"status">>, s1.err, CaptureCatch(s1.err))
  ELSE IF NothingToCapture(s1.val)
  THEN Done(s1.r, <<"status">>,
            Return([success |-> FALSE,
                    message |-> <<"Nothing to capture - no changes detected">>]))
  ELSE
  LET s2 == GitAdd(s1.r, f = 2, e) IN
  IF ~s2.ok THEN Caught(s2.r, <<"status", "add">>, s2.err, CaptureCatch(s2.err))
  ELSE
  LET s3 == GitCommit(s2.r, f = 3, e) IN
  IF ~s3.ok THEN Caught(s3.r, <<"status", "add", "commit">>, s3.err, CaptureCatch(s3.err))
  ELSE Done(s3.r, <<"status", "add", "commit">>,
            Return([success |-> TRUE,
                    message |-> <<"Captured: \"", message, "\"">>,
                    hash |-> Hash(s3.val)]))

(***************************************************************************)
(* update                                                                  *)
(***************************************************************************)
\* An update without its guard: it fetches whether or not a remote exists.
UpdateNotConnectedSkipped(remotes) == FALSE

UpdateNotConnected(remotes) == Cardinality(remotes) = 0

\* A catch block that does not look for a conflict in the error text.
UpdateCatchGeneric(errorMsg) ==
  Return([success |-> FALSE, message |-> <<"Update failed: ", errorMsg>>])

UpdateCatch(errorMsg) ==
  IF includes(errorMsg, "conflict")
  THEN Return([success |-> FALSE,
               message |-> <<"Update found tangles (conflicts). Resolve them manually.">>])
  ELSE Return([success |-> FALSE, message |-> <<"Update failed: ", errorMsg>>])

update(r, f, e) ==
  LET s1 == GitGetRemotes(r, f = 1, e) IN
  IF ~s1.ok THEN Caught(s1.r, <<"getRemotes">>, s1.err, UpdateCatch(s1.err))
  ELSE IF UpdateNotConnected(s1.val)
  THEN Done(s1.r, <<"getRemotes">>,
            Return([success |-> FALSE,
                    message |-> <<"Not connected to cloud yet. Use \"Connect\" first.">>]))
  ELSE
  LET s2 == GitFetch(s1.r, f = 2, e) IN
  IF ~s2.ok THEN Caught(s2.r, <<"getRemotes", "fetch">>, s2.err, UpdateCatch(s2.err))
  ELSE
  LET s3 == GitStatus(s2.r, f = 3, e) IN
  IF ~s3.ok THEN Caught(s3.r, <<"getRemotes", "fetch", "status">>, s3.err, UpdateCatch(s3.err))
  ELSE IF s3.val.behind = 0
  THEN Done(s3.r, <<"getRemotes", "fetch", "status">>,
            Return([success |-> TRUE, message |-> <<"Already up to date!">>,
                    behind |-> 0, ahead |-> s3.val.ahead]))
  ELSE
  LET s4 == GitPull(s3.r, f = 4, e) IN
  IF ~s4.ok
  THEN Caught(s4.r, <<"getRemotes", "fetch", "status", "pull">>, s4.err, UpdateCatch(s4.err))
  ELSE Done(s4.r, <<"getRemotes", "fetch", "status", "pull">>,
            Return([success |-> TRUE,
                    message |-> <<"Updated! Got ", ToString(s3.val.behind),
                                  " new capture(s) from cloud.">>,
                    behind |-> s3.val.behind, ahead |-> s3.val.ahead]))

(***************************************************************************)
(* backup                                                                  *)
(***************************************************************************)
BackupNotConnected(remotes) == Cardinality(remotes) = 0

\* A catch block that does not look for a rejection in the error text.
BackupCatchGeneric(errorMsg) ==
  Return([success |-> FALSE, message |-> <<"Backup failed: ", errorMsg>>])

BackupCatch(errorMsg) ==
  IF includes(errorMsg, "rejected")
  THEN Return([success |-> FALSE,
               message |-> <<"Backup rejected - cloud has newer changes. Run \"Update\" first.">>])
  ELSE Return([success |-> FALSE, message |-> <<"Backup failed: ", errorMsg>>])

backup(r, f, e) ==
  LET s1 == GitGetRemotes(r, f = 1, e) IN
  IF ~s1.ok THEN Caught(s1.r, <<"getRemotes">>, s1.err, BackupCatch(s1.err))
  ELSE IF BackupNotConnected(s1.val)
  THEN Done(s1.r, <<"getRemotes">>,
            Return([success |-> FALSE,
                    message |-> <<"Not connected to cloud yet. Use \"Connect\" first.">>]))
  ELSE
  LET s2 == GitStatus(s1.r, f = 2, e) IN
  IF ~s2.ok THEN Caught(s2.r, <<"getRemotes", "status">>, s2.err, BackupCatch(s2.err))
  ELSE IF s2.val.ahead = 0
  THEN Done(s2.r, <<"getRemotes", "status">>,
            Return([success |-> TRUE,
                    message |-> <<"Already backed up! Cloud is in sync.">>,
                    pushed |-> FALSE]))
  ELSE
  LET s3 == GitPush(s2.r, f = 3, e) IN
  IF ~s3.ok THEN Caught(s3.r, <<"getRemotes", "status", "push">>, s3.err, BackupCatch(s3.err))
  ELSE Done(s3.r, <<"getRemotes", "status", "push">>,
            Return([success |-> TRUE,
                    message |-> <<"Backed up! ", ToString(s2.val.ahead), " capture(s) sent to cloud.">>,
                    pushed |-> TRUE]))

(***************************************************************************)
(* changes                                                                 *)
(***************************************************************************)
\* A staged list that leaves out what was modified again after staging.
StagedUnlessModified(status) == status.staged \ status.modified

Staged(status) == status.staged

\* An unstaged list without the filter on the staged paths.
UnstagedUnfiltered(status) == status.modified

Unstaged(status) == {f \in status.modified : ~(f \in status.staged)}

Untracked(status) == status.not_added

ChangesSummary(staged, unstaged, untracked) ==
  LET n1 == Cardinality(staged)
      n2 == Cardinality(unstaged)
      n3 == Cardinality(untracked)
  IN IF n1 = 0 /\ n2 = 0 /\ n3 = 0 THEN <<"No changes since last capture.">>
     ELSE (IF n1 > 0 THEN <<ToString(n1), " ready to capture">> ELSE <<>>)
          \o (IF n2 > 0 THEN <<ToString(n2), " modified">> ELSE <<>>)
          \o (IF n3 > 0 THEN <<ToString(n3), " new">> ELSE <<>>)

ChangesCatch(error) ==
  Return([hasChanges |-> FALSE, staged |-> {}, unstaged |-> {}, untracked |-> {},
          summary |-> <<"Could not check changes: ", error>>])

changes(r, f, e) ==
  LET s1 == GitStatus(r, f = 1, e) IN
  IF ~s1.ok THEN Caught(s1.r, <<"status">>, s1.err, ChangesCatch(s1.err))
  ELSE
  LET staged == Staged(s1.val)
      unstaged == Unstaged(s1.val)
      untracked == Untracked(s1.val)
  IN Done(s1.r, <<"status">>,
          Return([hasChanges |-> Cardinality(staged) > 0 \/ Cardinality(unstaged) > 0
                                 \/ Cardinality(untracked) > 0,
                  staged |-> staged, unstaged |-> unstaged, untracked |-> untracked,
                  summary |-> ChangesSummary(staged, unstaged, untracked)]))

(***************************************************************************)
(* timeline                                                                *)
(***************************************************************************)
TimelineCatch(error) == Return(<<>>)

timeline(r, limit, f, e) ==
  LET s1 == GitLogMaxCount(r, limit, f = 1, e) IN
  IF ~s1.ok THEN Caught(s1.r, <<"log">>, s1.err, TimelineCatch(s1.err))
  ELSE Done(s1.r, <<"log">>,
            Return([i \in 1..Len(s1.val) |->
                      [hash |-> s1.val[i].hash, shortHash |-> Take(s1.val[i].hash, 7)]]))

(***************************************************************************)
(* experiment                                                              *)
(***************************************************************************)
ExperimentCatch(error) ==
  Return([success |-> FALSE, message |-> <<"Could not start experiment: ", error>>])

experiment(r, name, f, e) ==
  LET s1 == GitCheckoutLocalBranch(r, safeName(name), f = 1, e) IN
  IF ~s1.ok THEN Caught(s1.r, <<"checkoutLocalBranch">>, s1.err, ExperimentCatch(s1.err))
  ELSE Done(s1.r, <<"checkoutLocalBranch">>,
            Return([success |-> TRUE,
                    message |-> <<"Experiment \"", name, "\" started. You're now on a safe branch.">>,
                    experimentName |-> safeName(name)]))

(***************************************************************************)
(* getMainBranch: its own try/catch, so it always returns a name.          *)
(***************************************************************************)
MainBranchOf(all) ==
  IF MAIN \in all THEN MAIN ELSE IF MASTER \in all THEN MASTER ELSE MAIN

getMainBranch(r, inj, e) ==
  LET s1 == GitBranchLocal(r, inj, e) IN
  IF ~s1.ok THEN Ok(s1.r, MAIN) ELSE Ok(s1.r, MainBranchOf(s1.val))

(***************************************************************************)
(* keep                                                                    *)
(***************************************************************************)
\* A keep whose guard knows the name main only.
KeepOnMainOnly(currentBranch) == currentBranch = MAIN

KeepOnMain(currentBranch) == currentBranch = MAIN \/ currentBranch = MASTER

\* A keep whose catch block passes the error on.
KeepCatchRethrows(errorMsg) == Raise(errorMsg)

KeepCatch(errorMsg) ==
  IF includes(errorMsg, "conflict")
  THEN Return([success |-> FALSE,
               message |-> <<"Keeping this experiment created tangles. Resolve conflicts manually.">>])
  ELSE Return([success |-> FALSE, message |-> <<"Could not keep experiment: ", errorMsg>>])

\* A keep that deletes the experiment before it merges it.
keepDeletesFirst(r, f, e) ==
  LET s1 == GitStatus(r, f = 1, e) IN
  IF ~s1.ok THEN Caught(s1.r, <<"status">>, s1.err, KeepCatch(s1.err))
  ELSE
  LET currentBranch == s1.val.current IN
  IF KeepOnMain(currentBranch)
  THEN Done(s1.r, <<"status">>,
            Return([success |-> FALSE,
                    message |-> <<"You're already on the main timeline. Nothing to keep.">>]))
  ELSE
  LET s2 == getMainBranch(s1.r, f = 2, e)
      s3 == GitCheckout(s2.r, s2.val, f = 3, e)
  IN
  IF ~s3.ok THEN Caught(s3.r, <<"status", "branchLocal", "checkout">>, s3.err, KeepCatch(s3.err))
  ELSE
  LET s4 == GitDeleteLocalBranch(s3.r, currentBranch, TRUE, f = 4, e) IN
  IF ~s4.ok
  THEN Caught(s4.r, <<"status", "branchLocal", "checkout", "deleteLocalBranch">>, s4.err, KeepCatch(s4.err))
  ELSE
  LET s5 == GitMerge(s4.r, currentBranch, f = 5, e) IN
  IF ~s5.ok
  THEN Caught(s5.r, <<"status", "branchLocal", "checkout", "deleteLocalBranch", "merge">>, s5.err, KeepCatch(s5.err))
  ELSE Done(s5.r, <<"status", "branchLocal", "checkout", "deleteLocalBranch", "merge">>,
            Return([success |-> TRUE,
                    message |-> <<"Experiment \"", currentBranch,
                                  "\" is now part of the main timeline!">>]))

\* A keep that deletes the experiment without merging it.
keepWithoutMerge(r, f, e) ==
  LET s1 == GitStatus(r, f = 1, e) IN
  IF ~s1.ok THEN Caught(s1.r, <<"status">>, s1.err, KeepCatch(s1.err))
  ELSE
  LET currentBranch == s1.val.current IN
  IF KeepOnMain(currentBranch)
  THEN Done(s1.r, <<"status">>,
            Return([success |-> FALSE,
                    message |-> <<"You're already on the main timeline. Nothing to keep.">>]))
  ELSE
  LET s2 == getMainBranch(s1.r, f = 2, e)
      s3 == GitCheckout(s2.r, s2.val, f = 3, e)
  IN
  IF ~s3.ok THEN Caught(s3.r, <<"status", "branchLocal", "checkout">>, s3.err, KeepCatch(s3.err))
  ELSE
  LET s5 == GitDeleteLocalBranch(s3.r, currentBranch, TRUE, f = 4, e) IN
  IF ~s5.ok
  THEN Caught(s5.r, <<"status", "branchLocal", "checkout", "deleteLocalBranch">>, s5.err, KeepCatch(s5.err))
  ELSE Done(s5.r, <<"status", "branchLocal", "checkout", "deleteLocalBranch">>,
            Return([success |-> TRUE,
                    message |-> <<"Experiment \"", currentBranch,
                                  "\" is now part of the main timeline!">>]))

keep(r, f, e) ==
  LET s1 == GitStatus(r, f = 1, e) IN
  IF ~s1.ok THEN Caught(s1.r, <<"status">>, s1.err, KeepCatch(s1.err))
  ELSE
  LET currentBranch == s1.val.current IN
  IF KeepOnMain(currentBranch)
  THEN Done(s1.r, <<"status">>,
            Return([success |-> FALSE,
                    message |-> <<"You're already on the main timeline. Nothing to keep.">>]))
  ELSE
  LET s2 == getMainBranch(s1.r, f = 2, e)
      s3 == GitCheckout(s2.r, s2.val, f = 3, e)
  IN
  IF ~s3.ok THEN Caught(s3.r, <<"status", "branchLocal", "checkout">>, s3.err, KeepCatch(s3.err))
  ELSE
  LET s4 == GitMerge(s3.r, currentBranch, f = 4, e) IN
  IF ~s4.ok
  THEN Caught(s4.r, <<"status", "branchLocal", "checkout", "merge">>, s4.err, KeepCatch(s4.err))
  ELSE
  LET s5 == GitDeleteLocalBranch(s4.r, currentBranch, FALSE, f = 5, e) IN
  IF ~s5.ok
  THEN Caught(s5.r, <<"status", "branchLocal", "checkout", "merge", "deleteLocalBranch">>, s5.err, KeepCatch(s5.err))
  ELSE Done(s5.r, <<"status", "branchLocal", "checkout", "merge", "deleteLocalBranch">>,
            Return([success |-> TRUE,
                    message |-> <<"Experiment \"", currentBranch,
                                  "\" is now part of the main timeline!">>]))

(***************************************************************************)
(* discard                                                                 *)
(***************************************************************************)
DiscardOnMain(currentBranch) == currentBranch = MAIN \/ currentBranch = MASTER

DiscardCatch(error) ==
  Return([success |-> FALSE, message |-> <<"Could not discard experiment: ", error>>])

\* A discard that merges the experiment before deleting it.
discardAfterMerge(r, f, e) ==
  LET s1 == GitStatus(r, f = 1, e) IN
  IF ~s1.ok THEN Caught(s1.r, <<"status">>, s1.err, DiscardCatch(s1.err))
  ELSE
  LET currentBranch == s1.val.current IN
  IF DiscardOnMain(currentBranch)
  THEN Done(s1.r, <<"status">>,
            Return([success |-> FALSE,
                    message |-> <<"You're on the main timeline. Nothing to discard.">>]))
  ELSE
  LET s2 == getMainBranch(s1.r, f = 2, e)
      s3 == GitCheckout(s2.r, s2.val, f = 3, e)
  IN
  IF ~s3.ok THEN Caught(s3.r, <<"status", "branchLocal", "checkout">>, s3.err, DiscardCatch(s3.err))
  ELSE
  LET m == GitMerge(s3.r, currentBranch, FALSE, e)
      s4 == GitDeleteLocalBranch(m.r, currentBranch, TRUE, f = 4, e)
  IN
  IF ~s4.ok
  THEN Caught(s4.r, <<"status", "branchLocal", "checkout", "deleteLocalBranch">>, s4.err, DiscardCatch(s4.err))
  ELSE Done(s4.r, <<"status", "branchLocal", "checkout", "deleteLocalBranch">>,
            Return([success |-> TRUE,
                    message |-> <<"Experiment \"", currentBranch,
                                  "\" discarded. Back on main timeline.">>]))

discard(r, f, e) ==
  LET s1 == GitStatus(r, f = 1, e) IN
  IF ~s1.ok THEN Caught(s1.r, <<"status">>, s1.err, DiscardCatch(s1.err))
  ELSE
  LET currentBranch == s1.val.current IN
  IF DiscardOnMain(currentBranch)
  THEN Done(s1.r, <<"status">>,
            Return([success |-> FALSE,
                    message |-> <<"You're on the main timeline. Nothing to discard.">>]))
  ELSE
  LET s2 == getMainBranch(s1.r, f = 2, e)
      s3 == GitCheckout(s2.r, s2.val, f = 3, e)
  IN
  IF ~s3.ok THEN Caught(s3.r, <<"status", "branchLocal", "checkout">>, s3.err, DiscardCatch(s3.err))
  ELSE
  LET s4 == GitDeleteLocalBranch(s3.r, currentBranch, TRUE, f = 4, e) IN
  IF ~s4.ok
  THEN Caught(s4.r, <<"status", "branchLocal", "checkout", "deleteLocalBranch">>, s4.err, DiscardCatch(s4.err))
  ELSE Done(s4.r, <<"status", "branchLocal", "checkout", "deleteLocalBranch">>,
            Return([success |-> TRUE,
                    message |-> <<"Experiment \"", currentBranch,
                                  "\" discarded. Back on main timeline.">>]))

(***************************************************************************)
(* restore                                                                 *)
(***************************************************************************)
\* A restore without its guard: it checks out over unsaved changes.
UnsavedChangesSkipped(status) == FALSE

UnsavedChanges(status) == Cardinality(status.files) > 0

RestoreCatch(error) ==
  Return([success |-> FALSE, message |-> <<"Could not restore: ", error>>])

restore(r, hashOrRelative, f, e) ==
  LET s1 == GitStatus(r, f = 1, e) IN
  IF ~s1.ok THEN Caught(s1.r, <<"status">>, s1.err, RestoreCatch(s1.err))
  ELSE IF UnsavedChanges(s1.val)
  THEN Done(s1.r, <<"status">>,
            Return([success |-> FALSE,
                    message |-> <<"You have unsaved changes. Capture them first, or they'll be lost.">>]))
  ELSE
  LET s2 == GitCheckout(s1.r, hashOrRelative, f = 2, e) IN
  IF ~s2.ok THEN Caught(s2.r, <<"status", "checkout">>, s2.err, RestoreCatch(s2.err))
  ELSE Done(s2.r, <<"status", "checkout">>,
            Return([success |-> TRUE,
                    message |-> <<"Restored to capture ", Take(hashOrRelative, 7)>>]))

(***************************************************************************)
(* start, connect                                                          *)
(***************************************************************************)
StartCatch(error) ==
  Return([success |-> FALSE, message |-> <<"Could not start: ", error>>])

start(r, initBranch, f, e) ==
  LET s1 == GitInit(r, initBranch, f = 1, e) IN
  IF ~s1.ok THEN Caught(s1.r, <<"init">>, s1.err, StartCatch(s1.err))
  ELSE Done(s1.r, <<"init">>,
            Return([success |-> TRUE,
                    message |-> <<"Sacred Timeline initialized! Your innovation journey begins.">>]))

ConnectCatch(errorMsg) ==
  IF includes(errorMsg, "already exists")
  THEN Return([success |-> FALSE, message |-> <<"Already connected to cloud.">>])
  ELSE Return([success |-> FALSE, message |-> <<"Could not connect: ", errorMsg>>])

connect(r, url, f, e) ==
  LET s1 == GitAddRemote(r, ORIGIN, f = 1, e) IN
  IF ~s1.ok THEN Caught(s1.r, <<"addRemote">>, s1.err, ConnectCatch(s1.err))
  ELSE Done(s1.r, <<"addRemote">>,
            Return([success |-> TRUE,
                    message |-> <<"Connected to cloud! You can now backup and update.">>]))

(***************************************************************************)
(* isRepository, getStatusSummary                                          *)
(***************************************************************************)
IsRepositoryCatch(error) == Return(FALSE)

isRepository(r, f, e) ==
  LET s1 == GitStatus(r, f = 1, e) IN
  IF ~s1.ok THEN Caught(s1.r, <<"status">>, s1.err, IsRepositoryCatch(s1.err))
  ELSE Done(s1.r, <<"status">>, Return(TRUE))

NoExperiment == <<>>

StatusSummaryCatch(error) ==
  Return([isRepo |-> FALSE, currentExperiment |-> NoExperiment, hasChanges |-> FALSE,
          aheadOfCloud |-> 0, behindCloud |-> 0, hasConflicts |-> FALSE])

\* A summary that keeps the answer of the vault's first query: a clean tree,
\* nothing ahead, nothing behind.
getStatusSummaryRetained(r, f, e) ==
  LET s1 == GitStatus(r, f = 1, e) IN
  IF ~s1.ok THEN Caught(s1.r, <<"status">>, s1.err, StatusSummaryCatch(s1.err))
  ELSE
  LET s2 == getMainBranch(s1.r, f = 2, e) IN
  Done(s2.r, <<"status", "branchLocal">>,
       Return([isRepo |-> TRUE,
               currentExperiment |-> IF s1.val.current # s2.val THEN s1.val.current
                                     ELSE NoExperiment,
               hasChanges |-> FALSE,
               aheadOfCloud |-> 0,
               behindCloud |-> 0,
               hasConflicts |-> FALSE]))

getStatusSummary(r, f, e) ==
  LET s1 == GitStatus(r, f = 1, e) IN
  IF ~s1.ok THEN Caught(s1.r, <<"status">>, s1.err, StatusSummaryCatch(s1.err))
  ELSE
  LET s2 == getMainBranch(s1.r, f = 2, e) IN
  Done(s2.r, <<"status", "branchLocal">>,
       Return([isRepo |-> TRUE,
               currentExperiment |-> IF s1.val.current # s2.val THEN s1.val.current
                                     ELSE NoExperiment,
               hasChanges |-> Cardinality(s1.val.files) > 0,
               aheadOfCloud |-> s1.val.ahead,
               behindCloud |-> s1.val.behind,
               hasConflicts |-> Cardinality(s1.val.conflicted) > 0]))

(***************************************************************************)
(* narrate                                                                 *)
(***************************************************************************)
GitDiffNames(r, entry, inj, e) ==
  IF ~r.isRepo THEN Threw(r, NotARepo)
  ELSE IF entry.root THEN Threw(r, "fatal: bad revision")
  ELSE IF inj THEN Threw(r, e)
  ELSE Ok(r, entry.files)

\* The keys of a tally, in the order they were first met, each with its count.
RECURSIVE Tally(_, _)
Tally(keys, acc) ==
  IF keys = <<>> THEN acc
  ELSE LET k == Head(keys)
           hit == {i \in 1..Len(acc) : acc[i].key = k}
       IN IF hit = {}
          THEN Tally(Tail(keys), Append(acc, [key |-> k, n |-> 1]))
          ELSE LET i == CHOOSE j \in hit : TRUE IN
               Tally(Tail(keys), [acc EXCEPT ![i].n = acc[i].n + 1])

RECURSIVE Flatten(_)
Flatten(ss) == IF ss = <<>> THEN <<>> ELSE Head(ss) \o Flatten(Tail(ss))

RECURSIVE SelectSeqBy(_, _)
SelectSeqBy(s, S) ==
  IF s = <<>> THEN <<>>
  ELSE IF Head(s) \in S THEN <<Head(s)>> \o SelectSeqBy(Tail(s), S)
  ELSE SelectSeqBy(Tail(s), S)

\* The paths that are array indices as property keys, with their values.
ArrayIndex == (<<"7">> :> 7) @@ (<<"10">> :> 10)

RECURSIVE Ascending(_)
Ascending(t) ==
  IF t = <<>> THEN <<>>
  ELSE LET mn == CHOOSE i \in 1..Len(t) :
                   \A j \in 1..Len(t) : ArrayIndex[t[i].key] <= ArrayIndex[t[j].key]
       IN <<t[mn]>> \o Ascending(SubSeq(t, 1, mn - 1) \o SubSeq(t, mn + 1, Len(t)))

\* Object.entries of an object keyed by paths: the keys that are array indices
\* come first in ascending numeric order, then the others in insertion order.
ObjectEntries(t) ==
  LET all == {t[i] : i \in 1..Len(t)}
      idx == {x \in all : x.key \in DOMAIN ArrayIndex}
  IN Ascending(SelectSeqBy(t, idx)) \o SelectSeqBy(t, all \ idx)

\* A busiestDay loop that replaces the day on an equal count too.
RECURSIVE BusiestLastWins(_, _)
BusiestLastWins(dayMap, busiestDay) ==
  IF dayMap = <<>> THEN busiestDay
  ELSE LET d == Head(dayMap) IN
       IF busiestDay = <<>> \/ d.n >= busiestDay[1].captures
       THEN BusiestLastWins(Tail(dayMap), << [day |-> d.key, captures |-> d.n] >>)
       ELSE BusiestLastWins(Tail(dayMap), busiestDay)

RECURSIVE Busiest(_, _)
Busiest(dayMap, busiestDay) ==
  IF dayMap = <<>> THEN busiestDay
  ELSE LET d == Head(dayMap) IN
       IF busiestDay = <<>> \/ d.n > busiestDay[1].captures
       THEN Busiest(Tail(dayMap), << [day |-> d.key, captures |-> d.n] >>)
       ELSE Busiest(Tail(dayMap), busiestDay)

DotSegments == {".DS_Store", ".obsidian", ".hidden.md"}

startsWithDot(file) == file # <<>> /\ file[1] \in DotSegments

includesDSStore(file) == \E i \in 1..Len(file) : file[i] = ".DS_Store"

KeepFile(file) == ~includesDSStore(file) /\ ~startsWithDot(file)

\* Array.prototype.sort with (a, b) => b[1] - a[1]: stable, by count descending.
RECURSIVE SortByCountDesc(_)
SortByCountDesc(s) ==
  IF s = <<>> THEN <<>>
  ELSE LET mx == CHOOSE i \in 1..Len(s) :
                   /\ \A j \in 1..Len(s) : s[j].n <= s[i].n
                   /\ \A j \in 1..(i - 1) : s[j].n < s[i].n
       IN <<s[mx]>> \o SortByCountDesc(SubSeq(s, 1, mx - 1) \o SubSeq(s, mx + 1, Len(s)))

TopFilesLimit == 5

TopFiles(fileChanges) ==
  LET kept == SelectSeqBy(fileChanges, {x \in {fileChanges[i] : i \in 1..Len(fileChanges)} :
                                          KeepFile(x.key)})
      top == Take(SortByCountDesc(kept), TopFilesLimit)
  IN [i \in 1..Len(top) |->
        [file |-> top[i].key[Len(top[i].key)], path |-> top[i].key, changes |-> top[i].n]]

Plural(n) == IF n # 1 THEN "s" ELSE ""

NarrateSummary(days, n, busiestDay, topFiles) ==
  <<"In the last ", ToString(days), " days, you made ", ToString(n), " capture",
    Plural(n), ".">>
  \o (IF busiestDay # <<>> /\ busiestDay[1].captures > 1
      THEN <<" Your most productive day was ", busiestDay[1].day, " with ",
             ToString(busiestDay[1].captures), " captures.">>
      ELSE <<>>)
  \o (IF Len(topFiles) > 0
      THEN <<" You worked most on \"", topFiles[1].file, "\" (",
             ToString(topFiles[1].changes), " change", Plural(topFiles[1].changes), ").">>
      ELSE <<>>)

NoStats == [totalCaptures |-> 0, activeDays |-> 0, topFiles |-> <<>>, busiestDay |-> <<>>]

NarrateCatch(error) ==
  Return([success |-> FALSE, summary |-> <<"Could not narrate: ", error>>, stats |-> NoStats])

\* A narrate without its empty-window branch.
NoCommitsSkipped(commits) == FALSE

NoCommits(commits) == Len(commits) = 0

\* The loop over the commits: each diff is in its own try/catch, so a diff that
\* throws only leaves that commit's files out.
DiffOf(r, commits, i, f, e) == GitDiffNames(r, commits[i], f = i + 1, e)

narrate(r, days, f, e) ==
  LET s1 == GitLogSince(r, days, f = 1, e) IN
  IF ~s1.ok THEN Caught(s1.r, <<"log">>, s1.err, NarrateCatch(s1.err))
  ELSE
  LET commits == s1.val IN
  IF NoCommits(commits)
  THEN Done(s1.r, <<"log">>,
            Return([success |-> TRUE,
                    summary |-> <<"No captures in the last ", ToString(days),
                                  " days. Time to get back to work!">>,
                    stats |-> NoStats]))
  ELSE
  LET n == Len(commits)
      dayMap == Tally([i \in 1..n |-> commits[i].weekday], <<>>)
      diffs == [i \in 1..n |-> DiffOf(s1.r, commits, i, f, e)]
      fileChanges == ObjectEntries(Tally(Flatten([i \in 1..n |->
                                      IF diffs[i].ok THEN diffs[i].val ELSE <<>>]), <<>>))
      busiestDay == Busiest(dayMap, <<>>)
      topFiles == TopFiles(fileChanges)
      activeDays == Cardinality({commits[i].date : i \in 1..n})
  IN Done(s1.r, <<"log">> \o [i \in 1..n |-> "diff"],
          Return([success |-> TRUE,
                  summary |-> NarrateSummary(days, n, busiestDay, topFiles),
                  stats |-> [totalCaptures |-> n, activeDays |-> activeDays,
                             topFiles |-> topFiles, busiestDay |-> busiestDay]]))

(***************************************************************************)
(* The adapter called by one caller that awaits each call.                 *)
(* last keeps the call just made: the method, its arguments, the engine    *)
(* call that threw for an outside reason (f, 0 if none) and its text, the  *)
(* repository before the call, the engine calls issued and how it ended.   *)
(***************************************************************************)
Idle == [op |-> "none", args |-> <<>>, f |-> 0, e |-> "", pre |-> {}, calls |-> <<>>,
         caught |-> "", out |-> Return({})]

FirstCommit(r) ==
  [r EXCEPT !.hist = [b \in Refs |-> IF b \in r.branches THEN {1} ELSE {}],
            !.anc[1] = {1},
            !.entries[1] = [CommitEntry(r, 1) EXCEPT !.root = TRUE]]

\* No auto-backup interval is set (autoBackupInterval is null).
NoTimer == [live |-> {}, handle |-> 0]

DEFAULT_SETTINGS == [autoBackup |-> FALSE, showStatusBar |-> TRUE]

\* The status bar before its first text: item says whether onload created
\* statusBarItem; status and changes keep what the text shown was made from,
\* seen what the other call would have returned at each of the two reads:
\* changes() when the status was read, getStatusSummary() when the changes
\* were.
NoStatusBar(item) ==
  [item |-> item, text |-> <<>>, status |-> <<>>, changes |-> <<>>, seen |-> <<>>]

\* The plugin at rest: the specifications of the adapter alone leave it so.
PluginIdle ==
  /\ tasks = <<>>
  /\ timers = NoTimer
  /\ settings = DEFAULT_SETTINGS
  /\ notices = <<>>
  /\ statusBar = NoStatusBar(FALSE)

\* The outside faults of a method with n engine calls: none, or call f throws
\* text e.  A method whose catch reads the text is tried with the text it looks
\* for and with another; a method whose catch does not, with one text.
Generic == "fatal: unable to access"
Conflict == "CONFLICT (content): Merge conflict"
Rejected == "! [rejected] main -> main"
MergeConflicts == "CONFLICTS: a.md:content"
AlreadyExists == "remote origin already exists"

Faults(n, texts) == {<<0, "">>} \cup ((1..n) \X texts)

Call(op, args, f, e, d) ==
  /\ Cardinality(AllCommits(d.r)) <= MaxCommits
  /\ d.r.ahead <= MaxAhead
  /\ repo' = d.r
  /\ last' = [op |-> op, args |-> args,
              f |-> IF f <= Len(d.calls) THEN f ELSE 0,
              e |-> IF f = 0 \/ f > Len(d.calls) THEN "" ELSE e,
              pre |-> repo, calls |-> d.calls, caught |-> d.caught, out |-> d.out]
  /\ UNCHANGED plugin

Messages == {"note"}
Limits == {1, 5}
Windows == {0, 7}
Urls == {"https://github.com/u/vault.git"}
References == {MAIN} \cup ExperimentNames \cup {Hash(1), <<"H", "E", "A", "D", "~", "9">>}

Capture ==
  \E m \in Messages, x \in Faults(3, {Generic}) :
    Call("capture", <<m>>, x[1], x[2], capture(repo, m, x[1], x[2]))

Update ==
  \E x \in Faults(4, {Generic, Conflict}) : Call("update", <<>>, x[1], x[2], update(repo, x[1], x[2]))

Backup ==
  \E x \in Faults(3, {Generic, Rejected}) : Call("backup", <<>>, x[1], x[2], backup(repo, x[1], x[2]))

Changes ==
  \E x \in Faults(1, {Generic}) : Call("changes", <<>>, x[1], x[2], changes(repo, x[1], x[2]))

Timeline ==
  \E n \in Limits, x \in Faults(1, {Generic}) :
    Call("timeline", <<n>>, x[1], x[2], timeline(repo, n, x[1], x[2]))

Experiment ==
  \E n \in RawNames, x \in Faults(1, {Generic}) :
    Call("experiment", <<n>>, x[1], x[2], experiment(repo, n, x[1], x[2]))

Keep ==
  \E x \in Faults(5, {Generic, Conflict}) : Call("keep", <<>>, x[1], x[2], keep(repo, x[1], x[2]))

Discard ==
  \E x \in Faults(4, {Generic}) : Call("discard", <<>>, x[1], x[2], discard(repo, x[1], x[2]))

Restore ==
  \E ref \in References, x \in Faults(2, {Generic}) :
    Call("restore", <<ref>>, x[1], x[2], restore(repo, ref, x[1], x[2]))

Start ==
  \E b \in {MAIN, MASTER}, x \in Faults(1, {Generic}) :
    Call("start", <<>>, x[1], x[2], start(repo, b, x[1], x[2]))

Connect ==
  \E u \in Urls, x \in Faults(1, {Generic, AlreadyExists}) :
    Call("connect", <<u>>, x[1], x[2], connect(repo, u, x[1], x[2]))

Narrate ==
  \E d \in Windows, x \in Faults(1 + MaxCommits, {Generic}) :
    Call("narrate", <<d>>, x[1], x[2], narrate(repo, d, x[1], x[2]))

IsRepository ==
  \E x \in Faults(1, {Generic}) :
    Call("isRepository", <<>>, x[1], x[2], isRepository(repo, x[1], x[2]))

GetStatusSummary ==
  \E x \in Faults(2, {Generic}) :
    Call("getStatusSummary", <<>>, x[1], x[2], getStatusSummary(repo, x[1], x[2]))

\* The user, or another program, changes a file of the vault or stages it.
EditFile ==
  \E p \in DOMAIN repo.codes, c \in WorktreeCodes :
    /\ repo.isRepo
    /\ repo.codes[p] # c
    /\ repo' = [repo EXCEPT !.codes[p] = c]
    /\ last' = Idle
    /\ UNCHANGED plugin

\* Another clone pushes a commit to the remote.
RemoteAdvances ==
  /\ repo.isRepo
  /\ repo.remotes # {}
  /\ repo.behind + repo.unfetched < MaxAhead
  /\ repo' = [repo EXCEPT !.unfetched = repo.unfetched + 1]
  /\ last' = Idle
  /\ UNCHANGED plugin

(***************************************************************************)
(* Spec: the vault on one branch, its working tree and its cloud remote.   *)
(***************************************************************************)
Init ==
  /\ repo \in {NoRepo(Paths), FirstCommit(Born(Paths, {MAIN}, MAIN))}
  /\ last = Idle
  /\ PluginIdle

Next ==
  \/ Capture \/ Update \/ Backup \/ Changes \/ Timeline
  \/ Start \/ Connect \/ Narrate \/ IsRepository \/ GetStatusSummary
  \/ EditFile \/ RemoteAdvances

Spec == Init /\ [][Next]_vars

(***************************************************************************)
(* BranchSpec: the vault's timelines (branches), without a remote.         *)
(***************************************************************************)
BranchInit ==
  /\ repo \in { FirstCommit(Born(Paths, bs, b)) :
                  bs \in (SUBSET {MAIN, MASTER}) \ {{}}, b \in {MAIN, MASTER} }
  /\ repo.current \in repo.branches
  /\ last = Idle
  /\ PluginIdle

NewFile ==
  \E p \in DOMAIN repo.codes :
    /\ repo.codes[p] = Clean
    /\ repo' = [repo EXCEPT !.codes[p] = "??"]
    /\ last' = Idle
    /\ UNCHANGED plugin

BranchNext ==
  \/ Experiment \/ Keep \/ Discard \/ Restore \/ Capture \/ GetStatusSummary
  \/ NewFile

BranchSpec == BranchInit /\ [][BranchNext]_vars


(***************************************************************************)
(* Properties of the adapter's guards.                                     *)
(***************************************************************************)
\* The first engine call of the last operation succeeded.
FirstCallOk == last.f # 1 /\ last.pre.isRepo

NothingToCaptureResult ==
  [success |-> FALSE, message |-> <<"Nothing to capture - no changes detected">>]

CaptureOfNothing ==
  /\ last.op = "capture"
  /\ FirstCallOk
  /\ StatusResult(last.pre).files = {}

\* C1: capture(message), when the engine's status reports zero changed files,
\* returns success=false with the 'Nothing to capture' message, issues no add
\* and no commit call, and leaves the commit history and the index unchanged.
C1_CaptureNothing ==
  CaptureOfNothing =>
    /\ last.out = Return(NothingToCaptureResult)
    /\ \A i \in DOMAIN last.calls : last.calls[i] \notin {"add", "commit"}
    /\ repo.hist = last.pre.hist
    /\ repo.entries = last.pre.entries
    /\ repo.codes = last.pre.codes

C1_Witness ==
  /\ CaptureOfNothing
  /\ last.calls = <<"status">>
  /\ AllCommits(repo) # {}

NotConnectedResult ==
  [success |-> FALSE,
   message |-> <<"Not connected to cloud yet. Use \"Connect\" first.">>]

RemotesListedEmpty ==
  /\ last.op \in {"update", "backup"}
  /\ FirstCallOk
  /\ last.pre.remotes = {}

\* C2: update() and backup(), when the repository has zero configured
\* remotes, return success=false with the 'Not connected to cloud' message
\* and issue no fetch, pull or push call.
C2_NotConnected ==
  RemotesListedEmpty =>
    /\ last.out = Return(NotConnectedResult)
    /\ \A i \in DOMAIN last.calls : last.calls[i] \notin {"fetch", "pull", "push"}
    /\ repo = last.pre

C2_Witness ==
  /\ RemotesListedEmpty
  /\ last.op = "update"
  /\ last.calls = <<"getRemotes">>
  /\ StatusResult(last.pre).files # {}

\* The branch the adapter selects as the default one (getMainBranch).
DefaultBranch(r) == MainBranchOf(r.branches)

OnDefaultBranch ==
  /\ last.op \in {"keep", "discard"}
  /\ FirstCallOk
  /\ last.pre.current = DefaultBranch(last.pre)

AlreadyOnMainResult(op) ==
  [success |-> FALSE,
   message |-> IF op = "keep"
               THEN <<"You're already on the main timeline. Nothing to keep.">>
               ELSE <<"You're on the main timeline. Nothing to discard.">>]

\* C3: keep() and discard(), invoked while the current branch is the default
\* branch, return success=false (AlreadyOnMain), issue no checkout, merge or
\* branch-delete call, and leave the current branch and the set of branches
\* unchanged.
C3_AlreadyOnMain ==
  OnDefaultBranch =>
    /\ last.out = Return(AlreadyOnMainResult(last.op))
    /\ \A i \in DOMAIN last.calls :
         last.calls[i] \notin {"checkout", "merge", "deleteLocalBranch"}
    /\ repo.current = last.pre.current
    /\ repo.branches = last.pre.branches

C3_Witness ==
  /\ OnDefaultBranch
  /\ last.op = "keep"
  /\ last.pre.current = MASTER
  /\ last.calls = <<"status">>

RestoreOverChanges ==
  /\ last.op = "restore"
  /\ FirstCallOk
  /\ StatusResult(last.pre).files # {}

UncommittedChangesResult ==
  [success |-> FALSE,
   message |-> <<"You have unsaved changes. Capture them first, or they'll be lost.">>]

\* C4: restore(ref), when the engine's status reports at least one changed
\* file, returns success=false (UncommittedChanges), issues no checkout, and
\* leaves the current branch or revision unchanged.
C4_RestoreRefused ==
  RestoreOverChanges =>
    /\ last.out = Return(UncommittedChangesResult)
    /\ \A i \in DOMAIN last.calls : last.calls[i] # "checkout"
    /\ repo.current = last.pre.current
    /\ repo.hist = last.pre.hist

C4_Witness ==
  /\ RestoreOverChanges
  /\ last.calls = <<"status">>
  /\ last.args = <<Hash(1)>>
  /\ Cardinality(last.pre.branches) = 2

NarrateOfNothing ==
  /\ last.op = "narrate"
  /\ FirstCallOk
  /\ ~IsUnborn(last.pre)
  /\ \A id \in last.pre.hist[last.pre.current] : Age(last.pre, id) >= last.args[1]

NoActivityResult(days) ==
  [success |-> TRUE,
   summary |-> <<"No captures in the last ", ToString(days),
                 " days. Time to get back to work!">>,
   stats   |-> [totalCaptures |-> 0, activeDays |-> 0, topFiles |-> <<>>,
                busiestDay |-> <<>>]]

\* C10: narrate(days), when the engine reports zero commits in the window,
\* returns success=true with totalCaptures=0, activeDays=0, an empty topFiles
\* list, busiestDay=null and the fixed no-activity summary sentence, and
\* issues no per-commit diff call.
C10_NarrateNothing ==
  NarrateOfNothing =>
    /\ last.out = Return(NoActivityResult(last.args[1]))
    /\ \A i \in DOMAIN last.calls : last.calls[i] # "diff"

C10_Witness ==
  /\ NarrateOfNothing
  /\ AllCommits(last.pre) # {}
  /\ last.out.value.success
  /\ last.out.value.stats.topFiles = <<>>


(***************************************************************************)
(* ChangesSpec: changes() and getStatusSummary() over every status of a    *)
(* working tree of three files.                                            *)
(***************************************************************************)
ChangesInit ==
  /\ \E c \in [WidePaths -> Codes] :
       repo = [FirstCommit(Born(WidePaths, {MAIN}, MAIN)) EXCEPT !.codes = c]
  /\ last = Idle
  /\ PluginIdle

ChangesNext == Changes \/ GetStatusSummary

ChangesSpec == ChangesInit /\ [][ChangesNext]_vars

\* C6: in the ChangeSet returned by changes(), no path appears in more than
\* one of the three sets staged, unstaged and untracked.
C6_Partition ==
  last.op = "changes" =>
    LET v == last.out.value IN
    /\ v.staged \cap v.unstaged = {}
    /\ v.staged \cap v.untracked = {}
    /\ v.unstaged \cap v.untracked = {}

C6_Witness ==
  /\ last.op = "changes"
  /\ last.out.value.staged # {}
  /\ last.out.value.unstaged # {}
  /\ last.out.value.untracked # {}
  /\ \E p \in WidePaths : last.pre.codes[p] = "MM"

\* The paths staged in the index and modified again in the working tree.
StagedAndModified(r) == {p \in DOMAIN r.codes : r.codes[p] \in {"MM", "AM"}}

ChangesOfRestaged ==
  /\ last.op = "changes"
  /\ FirstCallOk
  /\ StagedAndModified(last.pre) # {}

\* C7 as stated: a path the engine reports as both staged and further
\* modified in the working tree is placed by changes() in the unstaged set
\* and not in the staged set.
C7_AsStated ==
  ChangesOfRestaged =>
    \A p \in StagedAndModified(last.pre) :
      p \in last.out.value.unstaged /\ p \notin last.out.value.staged

\* C7: a path the engine reports as both staged and further modified in the
\* working tree is placed by changes() in the staged set and not in the
\* unstaged set.
C7_StagedWins ==
  ChangesOfRestaged =>
    \A p \in StagedAndModified(last.pre) :
      p \in last.out.value.staged /\ p \notin last.out.value.unstaged

C7_Witness ==
  /\ ChangesOfRestaged
  /\ last.pre.codes["a.md"] = "MM"
  /\ last.pre.codes["b.md"] = " M"
  /\ last.out.value.staged = {"a.md"}
  /\ last.out.value.unstaged = {"b.md"}


(***************************************************************************)
(* AdapterSpec: each public method called once, from each kind of          *)
(* repository, with each of its engine calls failing in turn.              *)
(***************************************************************************)
Vaults ==
  LET url == CHOOSE u \in Urls : TRUE
      raw == CHOOSE n \in RawNames : TRUE
      born == FirstCommit(Born(Paths, {MAIN}, MAIN))
      edited == [born EXCEPT !.codes["a.md"] = "??"]
      linked == connect(born, url, 0, "").r
      unpushed == capture(connect(edited, url, 0, "").r, "note", 0, "").r
      outdated == [linked EXCEPT !.unfetched = 1]
      trial == capture(experiment(edited, raw, 0, "").r, "note", 0, "").r
  IN {NoRepo(Paths), born, edited, unpushed, outdated, trial}

AdapterInit ==
  /\ repo \in Vaults
  /\ last = Idle
  /\ PluginIdle

\* The action A as the first call made on the vault.
First(A) == last = Idle /\ A

AdapterNext ==
  \/ First(Capture) \/ First(Update) \/ First(Backup) \/ First(Changes)
  \/ First(Timeline) \/ First(Experiment) \/ First(Keep) \/ First(Discard)
  \/ First(Restore) \/ First(Start) \/ First(Connect) \/ First(Narrate)
  \/ First(IsRepository) \/ First(GetStatusSummary)

AdapterSpec == AdapterInit /\ [][AdapterNext]_vars

\* C8: every public method of the adapter, whichever engine call fails,
\* completes by returning a result value and lets no exception reach its
\* caller.
C8_AlwaysReturns ==
  last.op # "none" => last.out.kind = "return"

C8_Witness ==
  /\ last.op = "keep"
  /\ last.f = 5
  /\ last.calls[5] = "deleteLocalBranch"
  /\ last.caught = Generic
  /\ last.out.kind = "return"

\* The sentence a result carries for the user, <<>> when its shape has none:
\* a list of timeline entries, a StatusSummary and a boolean have no message.
MessageOf(op, out) ==
  CASE op \in {"capture", "update", "backup", "experiment", "keep", "discard",
               "restore", "start", "connect"} -> out.value.message
    [] op \in {"changes", "narrate"} -> out.value.summary
    [] OTHER -> <<>>

\* C9: every adapter operation that fails yields a human-readable message
\* describing the failure; none, timeline and getStatusSummary included,
\* reports a failure with no message at all.
C9_FailureHasMessage ==
  (last.op # "none" /\ last.caught # "") => MessageOf(last.op, last.out) # <<>>


(***************************************************************************)
(* PluginSpec: the plugin's commands and timers over the adapter.          *)
(* A handler is a task; its pc names the adapter call it is awaiting, and  *)
(* the step that ends the call applies the call's effect and runs the      *)
(* handler to its next await.  The engine calls of the model succeed or    *)
(* fail as the repository makes them; the sidebar view is left out.        *)
(***************************************************************************)
Free == [kind |-> "free", pc |-> "done", held |-> <<>>]

Task(kind, pc, held) == [kind |-> kind, pc |-> pc, held |-> held]

\* A handler starts running in the first free slot.
Begin(t) ==
  \E i \in DOMAIN tasks :
    /\ tasks[i].kind = "free"
    /\ \A j \in 1..(i - 1) : tasks[j].kind # "free"
    /\ tasks' = [tasks EXCEPT ![i] = t]

Awaiting(i, kind, pc) == tasks[i].kind = kind /\ tasks[i].pc = pc

Within(d) == Cardinality(AllCommits(d.r)) <= MaxCommits /\ d.r.ahead <= MaxAhead

\* updateStatusBar() up to its first await.
updateStatusBar ==
  IF ~statusBar.item THEN Free
  ELSE Task("updateStatusBar", "getStatusSummary", <<>>)

\* A status bar that shows the ahead token before the change count.
StatusBarTextAheadFirst(status, change) ==
  LET total == Cardinality(change.staged) + Cardinality(change.unstaged)
               + Cardinality(change.untracked)
  IN <<<<"camera">>>>
     \o (IF status.currentExperiment # NoExperiment
         THEN << <<"flask">> \o status.currentExperiment >> ELSE <<>>)
     \o (IF status.aheadOfCloud > 0
         THEN << <<"up", ToString(status.aheadOfCloud)>> >> ELSE <<>>)
     \o (IF change.hasChanges THEN << <<ToString(total), "delta">> >> ELSE <<>>)
     \o (IF status.behindCloud > 0
         THEN << <<"down", ToString(status.behindCloud)>> >> ELSE <<>>)
     \o (IF ~change.hasChanges /\ status.aheadOfCloud = 0 /\ status.behindCloud = 0
         THEN << <<"check">> >> ELSE <<>>)

\* A status bar that shows the all-synced token whenever no file changed.
StatusBarTextSyncedOnClean(status, change) ==
  LET total == Cardinality(change.staged) + Cardinality(change.unstaged)
               + Cardinality(change.untracked)
  IN <<<<"camera">>>>
     \o (IF status.currentExperiment # NoExperiment
         THEN << <<"flask">> \o status.currentExperiment >> ELSE <<>>)
     \o (IF change.hasChanges THEN << <<ToString(total), "delta">> >> ELSE <<>>)
     \o (IF status.aheadOfCloud > 0
         THEN << <<"up", ToString(status.aheadOfCloud)>> >> ELSE <<>>)
     \o (IF status.behindCloud > 0
         THEN << <<"down", ToString(status.behindCloud)>> >> ELSE <<>>)
     \o (IF ~change.hasChanges THEN << <<"check">> >> ELSE <<>>)

StatusBarText(status, change) ==
  LET total == Cardinality(change.staged) + Cardinality(change.unstaged)
               + Cardinality(change.untracked)
  IN <<<<"camera">>>>
     \o (IF status.currentExperiment # NoExperiment
         THEN << <<"flask">> \o status.currentExperiment >> ELSE <<>>)
     \o (IF change.hasChanges THEN << <<ToString(total), "delta">> >> ELSE <<>>)
     \o (IF status.aheadOfCloud > 0
         THEN << <<"up", ToString(status.aheadOfCloud)>> >> ELSE <<>>)
     \o (IF status.behindCloud > 0
         THEN << <<"down", ToString(status.behindCloud)>> >> ELSE <<>>)
     \o (IF ~change.hasChanges /\ status.aheadOfCloud = 0 /\ status.behindCloud = 0
         THEN << <<"check">> >> ELSE <<>>)

StatusBarTimer ==
  /\ statusBar.item
  /\ Begin(updateStatusBar)
  /\ UNCHANGED <<repo, last, timers, settings, notices, statusBar>>

StatusBarStatusReturns ==
  \E i \in DOMAIN tasks :
    /\ Awaiting(i, "updateStatusBar", "getStatusSummary")
    /\ LET d == getStatusSummary(repo, 0, "") IN
       tasks' = [tasks EXCEPT ![i] = Task("updateStatusBar", "changes",
                                          <<d.out.value, changes(repo, 0, "").out.value>>)]
    /\ UNCHANGED <<repo, last, timers, settings, notices, statusBar>>

StatusBarChangesReturns ==
  \E i \in DOMAIN tasks :
    /\ Awaiting(i, "updateStatusBar", "changes")
    /\ LET d == changes(repo, 0, "") IN
       statusBar' = [statusBar EXCEPT !.text = StatusBarText(tasks[i].held[1], d.out.value),
                                      !.status = <<tasks[i].held[1]>>,
                                      !.changes = <<d.out.value>>,
                                      !.seen = <<tasks[i].held[2],
                                                 getStatusSummary(repo, 0, "").out.value>>]
    /\ tasks' = [tasks EXCEPT ![i] = Free]
    /\ UNCHANGED <<repo, last, timers, settings, notices>>

\* setInterval gives the one interval the plugin keeps a handle of.
startAutoBackup(t) ==
  LET cleared == IF t.handle # 0 THEN t.live \ {t.handle} ELSE t.live
      id == CHOOSE n \in 1..(Cardinality(cleared) + 1) : n \notin cleared
  IN [live |-> cleared \cup {id}, handle |-> id]

AutoBackupToggled ==
  \E value \in BOOLEAN :
    /\ value # settings.autoBackup
    /\ settings' = [settings EXCEPT !.autoBackup = value]
    /\ timers' = IF value THEN startAutoBackup(timers) ELSE timers
    /\ UNCHANGED <<repo, last, tasks, notices, statusBar>>

AutoBackupTick ==
  /\ timers.live # {}
  /\ Begin(Task("autoBackup", "changes", <<>>))
  /\ UNCHANGED <<repo, last, timers, settings, notices, statusBar>>

AutoBackupChangesReturns ==
  \E i \in DOMAIN tasks :
    /\ Awaiting(i, "autoBackup", "changes")
    /\ LET d == changes(repo, 0, "") IN
       tasks' = [tasks EXCEPT ![i] = IF d.out.value.hasChanges
                                      THEN Task("autoBackup", "capture", <<>>)
                                      ELSE Free]
    /\ UNCHANGED <<repo, last, timers, settings, notices, statusBar>>

AutoBackupCaptureReturns ==
  \E i \in DOMAIN tasks :
    /\ Awaiting(i, "autoBackup", "capture")
    /\ LET d == capture(repo, "Auto-backup", 0, "") IN
       /\ Within(d)
       /\ repo' = d.r
       /\ tasks' = [tasks EXCEPT ![i] = Task("autoBackup", "backup", <<d.out.value.success>>)]
    /\ UNCHANGED <<last, timers, settings, notices, statusBar>>

AutoBackupBackupReturns ==
  \E i \in DOMAIN tasks :
    /\ Awaiting(i, "autoBackup", "backup")
    /\ LET d == backup(repo, 0, "") IN
       Within(d) /\ repo' = d.r
    /\ notices' = << <<"Sacred Timeline: Auto-backup complete">> >>
    /\ tasks' = [tasks EXCEPT ![i] = Free]
    /\ UNCHANGED <<last, timers, settings, statusBar>>

captureCommand ==
  /\ Begin(Task("captureCommand", "changes", <<>>))
  /\ UNCHANGED <<repo, last, timers, settings, notices, statusBar>>

CaptureChangesReturns ==
  \E i \in DOMAIN tasks :
    /\ Awaiting(i, "captureCommand", "changes")
    /\ LET d == changes(repo, 0, "") IN
       IF ~d.out.value.hasChanges
       THEN /\ notices' = << <<"Nothing to capture - no changes detected">> >>
            /\ tasks' = [tasks EXCEPT ![i] = Free]
       ELSE /\ notices' = notices
            /\ tasks' = [tasks EXCEPT ![i] = Task("captureCommand", "modal", <<>>)]
    /\ UNCHANGED <<repo, last, timers, settings, statusBar>>

CaptureModalSubmit ==
  \E i \in DOMAIN tasks, message \in Messages :
    /\ Awaiting(i, "captureCommand", "modal")
    /\ tasks' = [tasks EXCEPT ![i] = Task("captureCommand", "capture", <<message>>)]
    /\ UNCHANGED <<repo, last, timers, settings, notices, statusBar>>

CaptureModalCancel ==
  \E i \in DOMAIN tasks :
    /\ Awaiting(i, "captureCommand", "modal")
    /\ tasks' = [tasks EXCEPT ![i] = Free]
    /\ UNCHANGED <<repo, last, timers, settings, notices, statusBar>>

CaptureReturns ==
  \E i \in DOMAIN tasks :
    /\ Awaiting(i, "captureCommand", "capture")
    /\ LET d == capture(repo, tasks[i].held[1], 0, "") IN
       Within(d) /\ repo' = d.r /\ notices' = <<d.out.value.message>>
    /\ tasks' = [tasks EXCEPT ![i] = updateStatusBar]
    /\ UNCHANGED <<last, timers, settings, statusBar>>

updateCommand ==
  /\ Begin(Task("updateCommand", "update", <<>>))
  /\ notices' = << <<"Updating from cloud...">> >>
  /\ UNCHANGED <<repo, last, timers, settings, statusBar>>

UpdateReturns ==
  \E i \in DOMAIN tasks :
    /\ Awaiting(i, "updateCommand", "update")
    /\ LET d == update(repo, 0, "") IN
       Within(d) /\ repo' = d.r /\ notices' = <<d.out.value.message>>
    /\ tasks' = [tasks EXCEPT ![i] = updateStatusBar]
    /\ UNCHANGED <<last, timers, settings, statusBar>>

backupCommand ==
  /\ Begin(Task("backupCommand", "backup", <<>>))
  /\ notices' = << <<"Backing up to cloud...">> >>
  /\ UNCHANGED <<repo, last, timers, settings, statusBar>>

BackupReturns ==
  \E i \in DOMAIN tasks :
    /\ Awaiting(i, "backupCommand", "backup")
    /\ LET d == backup(repo, 0, "") IN
       Within(d) /\ repo' = d.r /\ notices' = <<d.out.value.message>>
    /\ tasks' = [tasks EXCEPT ![i] = updateStatusBar]
    /\ UNCHANGED <<last, timers, settings, statusBar>>

\* The plugin after onload, on a vault that start and connect have set up.
PluginInit ==
  /\ repo \in {FirstCommit(Born(Paths, {MAIN}, MAIN)),
               connect(FirstCommit(Born(Paths, {MAIN}, MAIN)),
                       CHOOSE u \in Urls : TRUE, 0, "").r}
  /\ last = Idle
  /\ settings \in [autoBackup : BOOLEAN, showStatusBar : BOOLEAN]
  /\ statusBar = NoStatusBar(settings.showStatusBar)
  /\ tasks = [i \in 1..MaxTasks |->
                IF i = 1 /\ settings.showStatusBar
                THEN Task("updateStatusBar", "getStatusSummary", <<>>) ELSE Free]
  /\ timers = IF settings.autoBackup THEN startAutoBackup(NoTimer) ELSE NoTimer
  /\ notices = <<>>

PluginNext ==
  \/ captureCommand \/ CaptureChangesReturns \/ CaptureModalSubmit
  \/ CaptureModalCancel \/ CaptureReturns
  \/ updateCommand \/ UpdateReturns
  \/ backupCommand \/ BackupReturns
  \/ AutoBackupToggled \/ AutoBackupTick \/ AutoBackupChangesReturns
  \/ AutoBackupCaptureReturns \/ AutoBackupBackupReturns
  \/ StatusBarTimer \/ StatusBarStatusReturns \/ StatusBarChangesReturns
  \/ NewFile \/ RemoteAdvances

PluginSpec == PluginInit /\ [][PluginNext]_vars

\* The adapter calls that change the repository.
Mutating ==
  {"capture", "update", "backup", "experiment", "keep", "discard", "restore",
   "start", "connect"}

InFlight == {i \in DOMAIN tasks : tasks[i].pc \in Mutating}

\* C5: the plugin never has two mutating adapter calls in flight at the same
\* time on the one repository: each is awaited to completion before the next
\* is issued, and an auto-backup tick's capture and backup never overlap a
\* user's mutating command or another tick.
C5_OneMutatingCall == Cardinality(InFlight) <= 1


(***************************************************************************)
(* NarrateSpec: narrate() over every history of up to MaxLog commits, each *)
(* commit with a weekday and a list of changed files, and every window.    *)
(* A window of d days holds the d newest commits.                          *)
(***************************************************************************)
\* git lists the files of one commit in byte order of their paths.
LogEntries ==
  { [weekday |-> "Monday", files |-> << <<"a.md">> >>],
    [weekday |-> "Tuesday", files |-> << <<"7">>, <<"b.md">> >>],
    [weekday |-> "Monday",
     files |-> << <<"c.md">>, <<"e.md">>, <<"f.md">>, <<"notes", "d.md">> >>],
    [weekday |-> "Tuesday",
     files |-> << <<".obsidian", "app.json">>, <<"a.md">>, <<"notes", ".hidden.md">> >>],
    [weekday |-> "Wednesday", files |-> << <<"a.md">>, <<"b.md">> >>] }

Histories == UNION { [1..n -> LogEntries] : n \in 1..MaxLog }

\* The repository whose branch main has the commits of h, oldest first.
History(h) ==
  [ Born(Paths, {MAIN}, MAIN) EXCEPT
      !.hist = [b \in Refs |-> IF b = MAIN THEN 1..Len(h) ELSE {}],
      !.anc = [id \in 1..Len(h) |-> 1..id],
      !.entries = [id \in 1..Len(h) |->
                     [hash |-> Hash(id), weekday |-> h[id].weekday, date |-> id,
                      files |-> h[id].files, root |-> id = 1]] ]

NarrateInit ==
  /\ repo \in { History(h) : h \in Histories }
  /\ last = Idle
  /\ PluginIdle

NarrateWindow ==
  \E days \in 0..MaxLog, x \in Faults(2, {Generic}) :
    LET d == narrate(repo, days, x[1], x[2]) IN
    /\ last = Idle
    /\ days <= Cardinality(AllCommits(repo))
    /\ repo' = d.r
    /\ last' = [op |-> "narrate", args |-> <<days>>,
                f |-> IF x[1] <= Len(d.calls) THEN x[1] ELSE 0,
                e |-> IF x[1] = 0 \/ x[1] > Len(d.calls) THEN "" ELSE x[2],
                pre |-> repo, calls |-> d.calls, caught |-> d.caught, out |-> d.out]
    /\ UNCHANGED plugin

NarrateNext == NarrateWindow

NarrateSpec == NarrateInit /\ [][NarrateNext]_vars

\* The commits narrate iterated, newest first, when no engine call failed
\* for an outside reason.
Narrated ==
  IF last.op = "narrate" /\ last.f = 0 /\ last.out.value.success
  THEN LogOf(last.pre, {id \in last.pre.hist[last.pre.current] :
                          Age(last.pre, id) < last.args[1]})
  ELSE <<>>

DayCount(log, day) == Cardinality({i \in 1..Len(log) : log[i].weekday = day})

FirstOn(log, day) == CHOOSE i \in 1..Len(log) :
                       log[i].weekday = day /\ \A j \in 1..(i - 1) : log[j].weekday # day

\* C11: for every non-empty sequence of commits, narrate's busiestDay is the
\* weekday whose commit tally is maximal, its captures field is that tally,
\* and among weekdays sharing the maximum it is the one met first while
\* iterating the commits.
C11_BusiestDay ==
  Narrated # <<>> =>
    LET log == Narrated
        days == {log[i].weekday : i \in 1..Len(log)}
        b == last.out.value.stats.busiestDay
    IN /\ Len(b) = 1
       /\ b[1].day \in days
       /\ b[1].captures = DayCount(log, b[1].day)
       /\ \A d \in days : DayCount(log, d) <= b[1].captures
       /\ \A d \in days : DayCount(log, d) = b[1].captures
                            => FirstOn(log, b[1].day) <= FirstOn(log, d)

C11_Witness ==
  /\ Len(Narrated) = 4
  /\ [i \in 1..4 |-> Narrated[i].weekday] = <<"Tuesday", "Monday", "Monday", "Tuesday">>
  /\ last.out.value.stats.busiestDay = << [day |-> "Tuesday", captures |-> 2] >>

\* The tallies of the visible files of a log in the order the files were
\* first met, sorted by count descending with equal counts left in that
\* order, and cut to five.
TalliesInOrder(log) ==
  LET t == Tally(Flatten([i \in 1..Len(log) |-> log[i].files]), <<>>)
      visible == SelectSeqBy(t, {x \in {t[i] : i \in 1..Len(t)} : KeepFile(x.key)})
  IN Take(SortByCountDesc(visible), 5)

\* C12: narrate's topFiles is the file tallies sorted by count descending,
\* files of equal count kept in first-encountered order, cut to at most 5
\* entries, each entry's changes being the number of commits of the window
\* that touched the path.  Stated for the windows that do not reach the
\* vault's first commit, whose files narrate leaves out.
C12_TopFiles ==
  (Narrated # <<>> /\ \A i \in 1..Len(Narrated) : ~Narrated[i].root) =>
    LET top == last.out.value.stats.topFiles
        want == TalliesInOrder(Narrated)
    IN /\ Len(top) = Len(want)
       /\ \A i \in 1..Len(top) :
            top[i].path = want[i].key /\ top[i].changes = want[i].n


(***************************************************************************)
(* StatusBarSpec: one run of updateStatusBar() on every kind of vault:     *)
(* each branch layout, each ahead and behind count up to MaxShown, each    *)
(* status of three files.                                                  *)
(***************************************************************************)
BarCodes == {Clean, "??", " M", " D"}

BarVaults ==
  LET name == CHOOSE n \in ExperimentNames : TRUE
      layouts == { <<{MAIN}, MAIN>>, <<{MAIN, name}, name>>, <<{MASTER}, MASTER>>,
                   <<{MAIN, MASTER}, MASTER>> }
  IN {NoRepo(WidePaths)} \cup
     { [FirstCommit(Born(WidePaths, l[1], l[2])) EXCEPT
          !.codes = c, !.remotes = {ORIGIN}, !.ahead = a, !.behind = b] :
       l \in layouts, c \in [WidePaths -> BarCodes],
       a \in 0..MaxShown, b \in 0..MaxShown }

StatusBarInit ==
  /\ repo \in BarVaults
  /\ last = Idle
  /\ settings = DEFAULT_SETTINGS
  /\ statusBar = NoStatusBar(TRUE)
  /\ tasks = [i \in 1..MaxTasks |-> IF i = 1 THEN updateStatusBar ELSE Free]
  /\ timers = NoTimer
  /\ notices = <<>>

StatusBarNext == StatusBarStatusReturns \/ StatusBarChangesReturns

StatusBarSpec == StatusBarInit /\ [][StatusBarNext]_vars

\* The place of a token in the fixed order: base, branch, change count,
\* ahead, behind, all synced.
TokenRank(token) ==
  CASE token[1] = "camera" -> 1
    [] token[1] = "flask"  -> 2
    [] token[1] = "up"     -> 4
    [] token[1] = "down"   -> 5
    [] token[1] = "check"  -> 6
    [] OTHER -> 3

Shown == statusBar.text # <<>>

HasToken(k) == \E i \in 1..Len(statusBar.text) : TokenRank(statusBar.text[i]) = k

\* The snapshot of the example: changes, two captures ahead, none behind, on
\* an experiment.
ExampleSnapshot ==
  /\ Shown
  /\ statusBar.changes[1].hasChanges
  /\ statusBar.status[1].aheadOfCloud = 2
  /\ statusBar.status[1].behindCloud = 0
  /\ statusBar.status[1].currentExperiment \in ExperimentNames

\* C13: the status-bar tokens come in the fixed order base, branch, change
\* count, ahead, behind, all synced, absent tokens skipped; for a snapshot
\* with changes, ahead 2, behind 0 on an experiment the text is exactly
\* base, branch, change count, ahead 2, with no all-synced token.
C13_TokenOrder ==
  Shown =>
    LET text == statusBar.text IN
    /\ text[1] = <<"camera">>
    /\ \A i, j \in 1..Len(text) : i < j => TokenRank(text[i]) < TokenRank(text[j])
    /\ ExampleSnapshot =>
         /\ Len(text) = 4
         /\ text[2] = <<"flask">> \o statusBar.status[1].currentExperiment
         /\ TokenRank(text[3]) = 3
         /\ text[4] = <<"up", "2">>

C13_Witness ==
  /\ ExampleSnapshot
  /\ statusBar.text[3] = <<"2", "delta">>
  /\ repo.codes = [p \in WidePaths |-> IF p = "a.md" THEN Clean ELSE "??"]

FilesCounted(change) ==
  Cardinality(change.staged) + Cardinality(change.unstaged) + Cardinality(change.untracked)

\* C14: in the status-bar text the all-synced token is present iff none of
\* the change-count, ahead and behind tokens is; the branch token is present
\* iff the current branch is not the default one, the change-count token iff
\* hasChanges (showing staged + unstaged + untracked), and the ahead and
\* behind tokens iff their count is not zero.
C14_TokenPresence ==
  Shown =>
    LET text == statusBar.text
        status == statusBar.status[1]
        change == statusBar.changes[1]
    IN /\ HasToken(6) <=> (~HasToken(3) /\ ~HasToken(4) /\ ~HasToken(5))
       /\ repo.isRepo => (HasToken(2) <=> repo.current # DefaultBranch(repo))
       /\ HasToken(3) <=> change.hasChanges
       /\ HasToken(4) <=> status.aheadOfCloud # 0
       /\ HasToken(5) <=> status.behindCloud # 0
       /\ \A i \in 1..Len(text) :
            /\ TokenRank(text[i]) = 2 => text[i] = <<"flask">> \o repo.current
            /\ TokenRank(text[i]) = 3 => text[i] = <<ToString(FilesCounted(change)), "delta">>
            /\ TokenRank(text[i]) = 4 => text[i] = <<"up", ToString(status.aheadOfCloud)>>
            /\ TokenRank(text[i]) = 5 => text[i] = <<"down", ToString(status.behindCloud)>>

C14_Witness ==
  /\ Shown
  /\ statusBar.text = << <<"camera">>, <<"down", "1">> >>
  /\ repo.current = MAIN
  /\ ~HasToken(6)


(***************************************************************************)
(* update and backup with a remote (checked under Spec)                    *)
(***************************************************************************)
Connected(op) ==
  /\ last.op = op
  /\ FirstCallOk
  /\ last.pre.remotes # {}

Count(calls, name) == Cardinality({i \in DOMAIN calls : calls[i] = name})

\* What the status after the fetch reports as behind.
BehindAfterFetch == last.pre.behind + last.pre.unfetched

UpdateConflictResult ==
  [success |-> FALSE,
   message |-> <<"Update found tangles (conflicts). Resolve them manually.">>]

\* C15: update() with a remote fetches first; if the status after the fetch
\* shows behind = 0 it returns success with behind = 0 and issues no pull;
\* otherwise it issues exactly one pull and on success reports the behind
\* count read after the fetch; if the pull fails with a conflict it returns
\* success=false with the conflict outcome and makes no further engine call.
C15_Update ==
  Connected("update") =>
    /\ Len(last.calls) >= 2
    /\ last.calls[1] = "getRemotes"
    /\ last.calls[2] = "fetch"
    /\ Count(last.calls, "fetch") = 1
    /\ last.f \notin {2, 3} =>
         IF BehindAfterFetch = 0
         THEN /\ last.out.kind = "return"
              /\ last.out.value.success
              /\ last.out.value.behind = 0
              /\ Count(last.calls, "pull") = 0
         ELSE /\ Count(last.calls, "pull") = 1
              /\ last.calls[Len(last.calls)] = "pull"
              /\ last.f = 0 =>
                   /\ last.out.kind = "return"
                   /\ last.out.value.success
                   /\ last.out.value.behind = BehindAfterFetch
                   /\ last.out.value.message =
                        <<"Updated! Got ", ToString(BehindAfterFetch),
                          " new capture(s) from cloud.">>
              /\ (last.f = 4 /\ last.e = Conflict) =>
                   /\ last.out = Return(UpdateConflictResult)
                   /\ repo.behind = BehindAfterFetch

C15_Witness ==
  /\ Connected("update")
  /\ last.pre.unfetched = 1
  /\ last.pre.behind = 0
  /\ last.f = 4
  /\ last.e = Conflict
  /\ last.out = Return(UpdateConflictResult)


BackupRejectedResult ==
  [success |-> FALSE,
   message |-> <<"Backup rejected - cloud has newer changes. Run \"Update\" first.">>]

\* C16: backup() with a remote and ahead = 0 returns success with
\* pushed=false and issues no push; with ahead > 0 it issues exactly one push
\* and on success returns pushed=true reporting the ahead count; when the
\* push is rejected because the remote has diverged it returns success=false
\* with the outcome that tells the caller to run Update first.
C16_Backup ==
  (Connected("backup") /\ last.f # 2) =>
    IF last.pre.ahead = 0
    THEN /\ last.out = Return([success |-> TRUE,
                               message |-> <<"Already backed up! Cloud is in sync.">>,
                               pushed |-> FALSE])
         /\ Count(last.calls, "push") = 0
         /\ repo = last.pre
    ELSE /\ Count(last.calls, "push") = 1
         /\ last.out.kind = "return"
         /\ last.out.value.success =>
              /\ last.out.value.pushed
              /\ last.out.value.message =
                   <<"Backed up! ", ToString(last.pre.ahead), " capture(s) sent to cloud.">>
              /\ repo.ahead = 0
         /\ Diverged(last.pre) =>
              /\ last.out = Return(BackupRejectedResult)
              /\ repo = last.pre

C16_Witness ==
  /\ Connected("backup")
  /\ last.pre.ahead = 1
  /\ Diverged(last.pre)
  /\ last.calls = <<"getRemotes", "status", "push">>
  /\ last.out = Return(BackupRejectedResult)


(***************************************************************************)
(* ExperimentSpec: experiment(name) for every name of InputNames, one      *)
(* experiment started from another.                                        *)
(***************************************************************************)
ExperimentInit ==
  /\ repo \in { FirstCommit(Born(Paths, {MAIN}, MAIN)), Unborn(Paths, MAIN), NoRepo(Paths) }
  /\ last = Idle
  /\ PluginIdle

ExperimentNamed ==
  \E n \in InputNames, x \in Faults(1, {Generic}) :
    Call("experiment", <<n>>, x[1], x[2], experiment(repo, n, x[1], x[2]))

ExperimentNext == ExperimentNamed

ExperimentSpec == ExperimentInit /\ [][ExperimentNext]_vars

ExperimentStarted ==
  /\ last.op = "experiment"
  /\ last.out.kind = "return"
  /\ last.out.value.success

\* C17: experiment(name) creates and switches to a branch whose name has
\* only lowercase letters, digits and hyphens: the input lowercased, every
\* other character replaced one-for-one by a hyphen; on success the returned
\* experimentName is that name and the current branch is that branch.
C17_SafeName ==
  ExperimentStarted =>
    LET lower == toLowerCase(last.args[1])
        made == last.out.value.experimentName
    IN /\ Len(made) = Len(lower)
       /\ \A i \in 1..Len(made) :
            /\ made[i] \in SafeChars
            /\ lower[i] \in SafeChars => made[i] = lower[i]
            /\ lower[i] \notin SafeChars => made[i] = "-"
       /\ repo.current = made
       /\ last.calls = <<"checkoutLocalBranch">>
       /\ last.pre.branches # {} => repo.branches = last.pre.branches \cup {made}

C17_Witness ==
  /\ ExperimentStarted
  /\ last.args[1] = <<"0", "/", "B">>
  /\ last.pre.current = <<"a", "-", "b">>
  /\ repo.current = <<"0", "-", "b">>
  /\ repo.branches = {MAIN, <<"a", "-", "b">>, <<"0", "-", "b">>}


(***************************************************************************)
(* keep and discard on an experiment (checked under BranchSpec)            *)
(***************************************************************************)
OnExperiment(op) ==
  /\ last.op = op
  /\ FirstCallOk
  /\ last.pre.current # DefaultBranch(last.pre)

\* The calls of the last operation that change the repository, in order.
Steps == SelectSeqBy(last.calls, {"checkout", "merge", "deleteLocalBranch"})

IsPrefix(s, t) == Len(s) <= Len(t) /\ s = SubSeq(t, 1, Len(s))

Succeeded == last.out.kind = "return" /\ last.out.value.success

\* C18: keep() on a non-default branch B performs, in this order, checkout
\* of the default branch, merge of B, deletion of B; whenever it returns
\* success=true the current branch is the default branch, B's commits are
\* merged into it, and B no longer exists.
C18_Keep ==
  OnExperiment("keep") =>
    LET B == last.pre.current
        default == DefaultBranch(last.pre)
    IN /\ IsPrefix(Steps, <<"checkout", "merge", "deleteLocalBranch">>)
       /\ Succeeded =>
            /\ Steps = <<"checkout", "merge", "deleteLocalBranch">>
            /\ repo.current = default
            /\ last.pre.hist[B] \subseteq repo.hist[default]
            /\ last.pre.hist[default] \subseteq repo.hist[default]
            /\ B \notin repo.branches
            /\ repo.branches = last.pre.branches \ {B}

C18_Witness ==
  /\ OnExperiment("keep")
  /\ Succeeded
  /\ ~(last.pre.hist[last.pre.current] \subseteq last.pre.hist[MASTER])
  /\ last.pre.branches = {MASTER, last.pre.current}
  /\ repo.current = MASTER


(***************************************************************************)
(* ConflictSpec: keep() on an experiment that forked from the default      *)
(* branch, both having changed a.md since: the merge may stop on a         *)
(* conflict.                                                               *)
(***************************************************************************)
Forked(default, B, codes) ==
  [ Born(WidePaths, {default, B}, B) EXCEPT
      !.codes = codes,
      !.hist = [b \in Refs |-> IF b = default THEN {1, 2} ELSE IF b = B THEN {1, 3} ELSE {}],
      !.anc = [id \in 1..3 |-> {1, id}],
      !.entries = [id \in 1..3 |->
                     [hash |-> Hash(id), weekday |-> Weekdays[(id % 2) + 1], date |-> id,
                      files |-> << <<"a.md">> >>, root |-> id = 1]] ]

ConflictInit ==
  /\ repo \in { Forked(default, B, codes) :
                  default \in {MAIN, MASTER},
                  B \in ExperimentNames \cup {<<"a", "-", "b">>},
                  codes \in {c \in [WidePaths -> {Clean, "??"}] : c["a.md"] = Clean} }
  /\ last = Idle
  /\ PluginIdle

KeepForked ==
  \E x \in Faults(5, {Generic, Conflict, MergeConflicts}) :
    LET d == keep(repo, x[1], x[2]) IN
    /\ last.op = Idle.op
    /\ repo' = d.r
    /\ last' = [op |-> "keep", args |-> <<>>,
                f |-> IF x[1] <= Len(d.calls) THEN x[1] ELSE 0,
                e |-> IF x[1] = 0 \/ x[1] > Len(d.calls) THEN "" ELSE x[2],
                pre |-> repo, calls |-> d.calls, caught |-> d.caught, out |-> d.out]
    /\ UNCHANGED plugin

ConflictNext == KeepForked

ConflictSpec == ConflictInit /\ [][ConflictNext]_vars

MergeConflicted ==
  /\ last.op = "keep"
  /\ last.f = 4
  /\ last.e \in MergeConflictTexts
  /\ last.calls[Len(last.calls)] = "merge"

MergeConflictResult ==
  [success |-> FALSE,
   message |-> <<"Keeping this experiment created tangles. Resolve conflicts manually.">>]

\* C19: when the merge step of keep() fails with a conflict, keep returns
\* success=false with the conflict outcome, issues no further engine call,
\* and the experiment branch still exists afterwards with the conflicted
\* merge left in place on the default branch.
C19_MergeConflict ==
  MergeConflicted =>
    /\ last.out = Return(MergeConflictResult)
    /\ last.calls = <<"status", "branchLocal", "checkout", "merge">>
    /\ last.pre.current \in repo.branches
    /\ repo.current = DefaultBranch(last.pre)
    /\ StatusResult(repo).conflicted # {}
    /\ repo.hist = last.pre.hist


OnDefault(r) == r.isRepo /\ r.current = DefaultBranch(r)

OnNamedBranch(r) == r.isRepo /\ r.current \in r.branches /\ r.current # DefaultBranch(r)

\* C21: the repository moves from the default branch to a named branch only
\* as the result of a successful experiment(name) call; no other adapter
\* operation, restore(reference) included, leaves a repository that was on
\* the default branch on a named branch.
C21_OnlyExperimentLeavesDefault ==
  (last.op # Idle.op /\ OnDefault(last.pre) /\ OnNamedBranch(repo)) =>
    /\ last.op = "experiment"
    /\ Succeeded


\* C22: keep() and discard() fail with AlreadyOnMain exactly when the
\* current branch is the designated default branch, the one getMainBranch
\* selects and getStatusSummary compares with; on every other current branch
\* they do not return AlreadyOnMain.
C22_GuardIsDefaultBranch ==
  (last.op \in {"keep", "discard"} /\ FirstCallOk) =>
    (last.out = Return(AlreadyOnMainResult(last.op))
       <=> last.pre.current = DefaultBranch(last.pre))


(***************************************************************************)
(* getStatusSummary (checked under Spec, where files, commits and the      *)
(* remote change between two calls)                                        *)
(***************************************************************************)
SummaryAsked ==
  /\ last.op = "getStatusSummary"
  /\ FirstCallOk

\* C23: every getStatusSummary() call issues a fresh status query and
\* returns values taken from that query only: whatever happened before the
\* call, it reports the state the repository is in when it is called.
C23_FreshSummary ==
  SummaryAsked =>
    LET now == StatusResult(last.pre)
        v == last.out.value
    IN /\ last.calls[1] = "status"
       /\ last.out.kind = "return"
       /\ v.isRepo
       /\ v.hasChanges <=> now.files # {}
       /\ v.aheadOfCloud = last.pre.ahead
       /\ v.behindCloud = last.pre.behind
       /\ v.hasConflicts <=> now.conflicted # {}
       /\ v.currentExperiment =
            (IF last.pre.current # DefaultBranch(last.pre) /\ last.f # 2
             THEN last.pre.current
             ELSE IF last.pre.current # MAIN /\ last.f = 2 THEN last.pre.current
             ELSE NoExperiment)
       /\ repo = last.pre

C23_Witness ==
  /\ SummaryAsked
  /\ last.out.value.hasChanges
  /\ last.out.value.aheadOfCloud = 1
  /\ last.pre.unfetched = 1
  /\ last.pre.codes["a.md"] = " D"


\* C24: no entry of narrate's topFiles is a dotfile: every path whose file
\* name (last path segment) begins with '.' is left out wherever it sits in
\* the directory tree, and each entry kept carries the file name (file) and
\* the full path (path).
C24_NoDotfiles ==
  Narrated # <<>> =>
    LET top == last.out.value.stats.topFiles IN
    \A i \in 1..Len(top) :
      /\ top[i].path[Len(top[i].path)] \notin DotSegments
      /\ top[i].file = top[i].path[Len(top[i].path)]


\* C25: whenever the engine reports at least one changed file, so that
\* capture() would stage and commit and getStatusSummary reports
\* hasChanges=true, changes().hasChanges is true as well.
C25_ChangesSeesEveryFile ==
  (last.op = "changes" /\ FirstCallOk /\ StatusResult(last.pre).files # {}) =>
    last.out.value.hasChanges


(***************************************************************************)
(* The auto-backup timer (checked under PluginSpec)                        *)
(***************************************************************************)
\* C26: after any sequence of plugin load, settings toggles and
\* startAutoBackup calls, at most one auto-backup timer is active, and
\* whenever the autoBackup setting is false no auto-backup timer is active.
C26_TimerFollowsSetting ==
  /\ Cardinality(timers.live) <= 1
  /\ ~settings.autoBackup => timers.live = {}


\* A tick has issued its backup(); held keeps what its capture() returned.
TickBacksUp(i) == Awaiting(i, "autoBackup", "backup")

\* The step in which tick i's backup() returns and the notice is shown.
TickCompletes(i) ==
  /\ TickBacksUp(i)
  /\ tasks'[i] = Free
  /\ notices' = << <<"Sacred Timeline: Auto-backup complete">> >>

\* C27: in an auto-backup tick, backup() is issued only after capture() has
\* returned success, and the 'Auto-backup complete' notice is shown only
\* when both the capture and the backup of that tick returned success=true.
C27_TickReportsSuccess ==
  /\ [](\A i \in DOMAIN tasks : TickBacksUp(i) => tasks[i].held[1])
  /\ [][\A i \in DOMAIN tasks :
          TickCompletes(i) =>
            /\ tasks[i].held[1]
            /\ backup(repo, 0, "").out.value.success]_vars


(***************************************************************************)
(* ConnectSpec: the Connect command, from the command to the end of the    *)
(* dialog's callback.  The event loop resumes every awaited call.          *)
(***************************************************************************)
\* The methods class SacredTimeline has.  Calling any other name on the
\* adapter throws a TypeError at the call.
SacredTimelineMethods ==
  {"capture", "update", "backup", "changes", "timeline", "experiment", "keep",
   "discard", "restore", "start", "connect", "narrate", "isRepository",
   "getStatusSummary", "getMainBranch", "getRelativeDate"}

\* The error of calling a property that is not a function.
NotAFunction == "TypeError: this.sacred.configureCredentials is not a function"

\* What the user may have typed in a field of the dialog.
Typed(values) == values \cup {""}

ConnectInit ==
  /\ repo \in Vaults
  /\ last = Idle
  /\ tasks = [i \in 1..MaxTasks |-> Free]
  /\ timers = NoTimer
  /\ settings \in [autoBackup : {FALSE}, showStatusBar : BOOLEAN]
  /\ statusBar = NoStatusBar(settings.showStatusBar)
  /\ notices = <<>>

connectCommand ==
  /\ Begin(Task("connectCommand", "isRepository", <<>>))
  /\ UNCHANGED <<repo, last, timers, settings, notices, statusBar>>

ConnectIsRepositoryReturns ==
  \E i \in DOMAIN tasks :
    /\ Awaiting(i, "connectCommand", "isRepository")
    /\ LET d == isRepository(repo, 0, "") IN
       IF ~d.out.value
       THEN /\ notices' = << <<"No timeline yet. Run \"Start\" first to initialize.">> >>
            /\ tasks' = [tasks EXCEPT ![i] = Free]
       ELSE /\ notices' = notices
            /\ tasks' = [tasks EXCEPT ![i] = Task("connectCommand", "modal", <<>>)]
    /\ UNCHANGED <<repo, last, timers, settings, statusBar>>

\* The dialog's Connect button: each blank field is refused with a notice and
\* the dialog stays open; otherwise the dialog closes and the callback runs
\* to its first await, of saveSettings().
ConnectModalSubmit ==
  \E i \in DOMAIN tasks, repoUrl \in Typed(Urls), token \in Typed({"ghp_token"}),
     username \in Typed({"user"}) :
    /\ Awaiting(i, "connectCommand", "modal")
    /\ IF username = ""
       THEN notices' = << <<"Please enter your GitHub username">> >> /\ tasks' = tasks
       ELSE IF token = ""
       THEN notices' = << <<"Please enter your Personal Access Token">> >> /\ tasks' = tasks
       ELSE IF repoUrl = ""
       THEN notices' = << <<"Please enter your repository URL">> >> /\ tasks' = tasks
       ELSE /\ notices' = notices
            /\ tasks' = [tasks EXCEPT ![i] =
                           Task("connectCommand", "saveSettings", <<repoUrl, token, username>>)]
    /\ UNCHANGED <<repo, last, timers, settings, statusBar>>

ConnectModalCancel ==
  \E i \in DOMAIN tasks :
    /\ Awaiting(i, "connectCommand", "modal")
    /\ tasks' = [tasks EXCEPT ![i] = Free]
    /\ UNCHANGED <<repo, last, timers, settings, notices, statusBar>>

\* The callback is resumed after the call it awaits and runs to its next
\* await or to its end.  A call of a method the adapter does not have throws
\* before anything is awaited; nothing catches it and the callback ends.
ConnectCallbackResumes ==
  \E i \in DOMAIN tasks :
    /\ tasks[i].kind = "connectCommand"
    /\ tasks[i].pc \in {"saveSettings", "configureCredentials", "connect"}
    /\ CASE tasks[i].pc = "saveSettings" ->
              /\ IF "configureCredentials" \in SacredTimelineMethods
                 THEN /\ tasks' = [tasks EXCEPT ![i] = [tasks[i] EXCEPT !.pc = "configureCredentials"]]
                      /\ last' = last
                 ELSE /\ tasks' = [tasks EXCEPT ![i] = Free]
                      /\ last' = [Idle EXCEPT !.op = "unhandledRejection",
                                              !.args = <<NotAFunction>>]
              /\ UNCHANGED <<repo, notices>>
         [] tasks[i].pc = "configureCredentials" ->
              /\ tasks' = [tasks EXCEPT ![i] = [tasks[i] EXCEPT !.pc = "connect"]]
              /\ UNCHANGED <<repo, last, notices>>
         [] tasks[i].pc = "connect" ->
              LET d == connect(repo, tasks[i].held[1], 0, "") IN
              /\ repo' = d.r
              /\ last' = [op |-> "connect", args |-> <<tasks[i].held[1]>>, f |-> 0, e |-> "",
                          pre |-> repo, calls |-> d.calls, caught |-> d.caught, out |-> d.out]
              /\ notices' = <<d.out.value.message>>
              /\ tasks' = [tasks EXCEPT ![i] = updateStatusBar]
    /\ UNCHANGED <<timers, settings, statusBar>>

ConnectNext ==
  \/ connectCommand \/ ConnectIsRepositoryReturns
  \/ ConnectModalSubmit \/ ConnectModalCancel \/ ConnectCallbackResumes

ConnectSpec ==
  /\ ConnectInit
  /\ [][ConnectNext]_vars
  /\ WF_vars(ConnectIsRepositoryReturns)
  /\ WF_vars(ConnectCallbackResumes)

\* The dialog was submitted with its three fields filled in, on a repository.
ConnectSubmitted ==
  \E i \in DOMAIN tasks :
    /\ Awaiting(i, "connectCommand", "saveSettings")
    /\ \A k \in 1..Len(tasks[i].held) : tasks[i].held[k] # ""
    /\ repo.isRepo

\* The adapter's connect(repoUrl) was called and its message is shown.
ConnectCalled ==
  /\ last.op = "connect"
  /\ last.out.kind = "return"
  /\ notices = <<last.out.value.message>>

\* C28: when the Connect dialog is submitted on an existing repository with
\* a non-empty username, token and repository URL, the plugin eventually
\* calls the adapter's connect(repoUrl) and shows its result message.
C28_ConnectIsCalled == ConnectSubmitted ~> ConnectCalled


(***************************************************************************)
(* The status bar while commands run (checked under PluginSpec)            *)
(***************************************************************************)
\* C29: the text written to the status bar by updateStatusBar describes one
\* single repository state: its branch, ahead and behind tokens and its
\* change-count token are taken from the same state of the repository, the
\* one the status was read in or the one the changes were read in, even when
\* a mutating operation runs while updateStatusBar is in progress.
C29_OneStateShown ==
  Shown =>
    \/ statusBar.text = StatusBarText(statusBar.status[1], statusBar.seen[1])
    \/ statusBar.text = StatusBarText(statusBar.seen[2], statusBar.changes[1])


(***************************************************************************)
(* Failed branch operations (checked under BranchSpec)                     *)
(***************************************************************************)
\* C30: whenever keep(), discard() or restore() returns success=false, the
\* repository's current branch and its set of local branches are the same as
\* before the call, whichever step of the operation failed.
C30_FailureChangesNothing ==
  (last.op \in {"keep", "discard", "restore"} /\ last.out.kind = "return"
     /\ ~last.out.value.success) =>
    /\ repo.current = last.pre.current
    /\ repo.branches = last.pre.branches


BranchOpFailed ==
  /\ last.op \in {"keep", "discard", "restore"}
  /\ last.out.kind = "return"
  /\ ~last.out.value.success

\* The operation's checkout returned and a later engine call was made.
CheckoutDone ==
  \E i \in DOMAIN last.calls : last.calls[i] = "checkout" /\ i < Len(last.calls)

\* C30, as the code has it: whenever keep(), discard() or restore() returns
\* success=false, the set of local branches is the same as before the call;
\* the current branch is the same as before when the failure came before or
\* in the checkout, and is the default branch when keep() or discard()
\* failed in a step after its checkout.
C30_FailureKeepsBranches ==
  BranchOpFailed =>
    /\ repo.branches = last.pre.branches
    /\ ~CheckoutDone => repo.current = last.pre.current
    /\ CheckoutDone =>
         /\ last.op \in {"keep", "discard"}
         /\ repo.current = DefaultBranch(last.pre)

C30_Witness ==
  /\ BranchOpFailed
  /\ CheckoutDone
  /\ last.op = "keep"
  /\ last.pre.current = DETACHED
  /\ last.f = 0
  /\ repo.current = MAIN

====
